---------------------------- MODULE Spec2Model ----------------------------
(***************************************************************************)
(* ChargeFinder: the place-charger correlation and filtering engine.       *)
(*                                                                         *)
(* Seven specifications share the variables below.                         *)
(*   SpecParse : parseChargerData applied to raw Open Charge Map records   *)
(*               drawn from a bounded set of records.                      *)
(*   SpecWalk  : walkingTimeToDistanceKm and calculateWalkingTime applied  *)
(*               to bounded sets of minutes and distances.                 *)
(*   SpecFetch : the charger-fetch stage of a load, request by request.    *)
(*   SpecPanel : the FilterPanel component: local and applied criteria.    *)
(*   SpecLanding : the landing-page form, its submission and the location  *)
(*               lookup MapView runs for it.                               *)
(*   SpecWatch : Spec with the watchdog timer of every load, under weak    *)
(*               fairness of the timers.                                   *)
(*   Spec      : the MapView component: loads (place search, distance      *)
(*               matrix, charger fetch, correlation), the filter criteria  *)
(*               and the apply-filters effect.                             *)
(*                                                                         *)
(* Conventions.                                                            *)
(*   - A JavaScript value that may be null or undefined is an option: the  *)
(*     empty tuple None, or the one-element tuple Some(v).                 *)
(*   - A JavaScript string is a sequence of one-character strings, so that *)
(*     toLowerCase and includes are computed, not assumed.                 *)
(*   - Powers are integers in watts (3.7 kW = 3700).                       *)
(*   - Coordinates are positions in metres along one line; distances are   *)
(*     integers in metres.                                                 *)
(***************************************************************************)
EXTENDS Integers, Sequences, FiniteSets, TLC

VARIABLES
    raw,                      \* SpecParse: the raw charger record
    parsed,                   \* SpecParse: option of parseChargerData(raw)
    raised,                   \* SpecParse: parseChargerData(raw) threw
    walk,                     \* SpecWalk: minutes, distance and walking-time label
    panel,                    \* SpecPanel: FilterPanel localFilters, appliedFilters
    landing,                  \* SpecLanding: LandingPage form, searchData, location lookup
    places,                   \* useState places
    chargers,                 \* useState chargers
    filteredChargers,         \* useState filteredChargers
    distances,                \* useState distances (place_id -> result)
    filters,                  \* useState filters
    isLoading,                \* useState isLoading
    error,                    \* useState error
    searchCenter,             \* useState searchCenter
    previousPlacesSignature,  \* useRef previousPlacesSignature
    loadFilters,              \* filters captured by the memoized loadDataFromLocation
    loads,                    \* the loadDataFromLocation calls in flight
    initPc,                   \* position of initializeLocation
    pending,                  \* effects whose dependencies changed in the last render
    published,                \* what the load that last set chargers used
    failures                  \* how many loads failed upstream so far

vars == <<raw, parsed, raised, walk, panel, landing, places, chargers, filteredChargers, distances, filters,
          isLoading, error, searchCenter, previousPlacesSignature,
          loadFilters, loads, initPc, pending, published, failures>>

parseVars == <<raw, parsed, raised, walk, panel, landing>>

viewVars == <<places, chargers, filteredChargers, distances, filters,
              isLoading, error, searchCenter, previousPlacesSignature,
              loadFilters, loads, initPc, pending, published, failures>>

-----------------------------------------------------------------------------
(* Options: null / undefined versus a value.                               *)

None == <<>>

Some(v) == <<v>>

\* a?.f and (a || {}).f : the field f of an optional record, itself optional
Chain(o, f) == IF o = None THEN None ELSE o[1][f]

\* a ?? d
Coalesce(o, d) == IF o = None THEN d ELSE o[1]

\* a === true, a === false for an optional boolean
IsTrue(o) == o = Some(TRUE)

IsFalse(o) == o = Some(FALSE)

-----------------------------------------------------------------------------
(* Strings.                                                                *)

UpperChars == <<"A","B","C","D","E","F","G","H","I","J","K","L","M",
                "N","O","P","Q","R","S","T","U","V","W","X","Y","Z">>

LowerChars == <<"a","b","c","d","e","f","g","h","i","j","k","l","m",
                "n","o","p","q","r","s","t","u","v","w","x","y","z">>

toLowerChar(c) ==
    IF \E i \in DOMAIN UpperChars : UpperChars[i] = c
    THEN LowerChars[CHOOSE i \in DOMAIN UpperChars : UpperChars[i] = c]
    ELSE c

\* String.prototype.toLowerCase
toLowerCase(s) == [i \in DOMAIN s |-> toLowerChar(s[i])]

\* String.prototype.includes
includes(s, sub) ==
    \E i \in 0..(Len(s) - Len(sub)) : SubSeq(s, i + 1, i + Len(sub)) = sub

\* (o || '') for an optional string
OrEmpty(o) == IF o = None THEN <<>> ELSE o[1]

\* (o || d) for an optional string: null, undefined and '' are falsy
OrString(o, d) == IF o = None \/ o[1] = <<>> THEN d ELSE o[1]

\* (o || 0) for an optional number
OrZero(o) == IF o = None THEN 0 ELSE o[1]

S_free == <<"f","r","e","e">>
S_unavailable == <<"u","n","a","v","a","i","l","a","b","l","e">>
S_planned == <<"p","l","a","n","n","e","d">>
S_removed == <<"r","e","m","o","v","e","d">>
S_decommissioned == <<"d","e","c","o","m","m","i","s","s","i","o","n","e","d">>
S_parking == <<"p","a","r","k","i","n","g">>
S_public == <<"p","u","b","l","i","c">>
S_private == <<"p","r","i","v","a","t","e">>
S_restricted == <<"r","e","s","t","r","i","c","t","e","d">>
S_Free == <<"F","r","e","e">>
S_PayAtLocation == <<"P","a","y"," ","A","t"," ","L","o","c","a","t","i","o","n">>
S_Paid == <<"P","a","i","d">>
S_Unknown == <<"U","n","k","n","o","w","n">>


(* Sample upstream texts.                                                  *)

T_free == S_free
T_FREE == <<"F","R","E","E">>
T_FreeCharging == <<"F","r","e","e"," ","c","h","a","r","g","i","n","g">>
T_Price == <<"$","0",".","3","5","/","k","W","h">>
T_Public == <<"P","u","b","l","i","c">>
T_PrivateRestricted == <<"P","r","i","v","a","t","e"," ","-"," ",
                         "R","e","s","t","r","i","c","t","e","d">>
T_PublicParking == <<"P","u","b","l","i","c"," ","P","a","r","k","i","n","g">>
T_PublicRestricted == <<"P","u","b","l","i","c"," ","-"," ",
                        "R","e","s","t","r","i","c","t","e","d"," ","H","o","u","r","s">>
T_RestrictedAccess == <<"R","E","S","T","R","I","C","T","E","D"," ","a","c","c","e","s","s">>
T_UnknownUsage == <<"(","U","n","k","n","o","w","n",")">>
T_Operational == <<"O","p","e","r","a","t","i","o","n","a","l">>
T_TempUnavailable == <<"T","e","m","p","."," ","U","n","a","v","a","i","l","a","b","l","e">>
T_PlannedForFuture == <<"P","l","a","n","n","e","d"," ","F","o","r"," ",
                        "F","u","t","u","r","e">>
T_Removed == <<"R","E","M","O","V","E","D">>
T_Decommissioned == <<"D","e","c","o","m","m","i","s","s","i","o","n","e","d">>
T_CCS == <<"C","C","S">>
T_Type2 == <<"T","y","p","e"," ","2">>

-----------------------------------------------------------------------------
(* Geo math (utils/distance).                                              *)

Abs(n) == IF n < 0 THEN -n ELSE n

\* calculateDistance: the great-circle distance, here the distance in metres
\* between two positions of the line model.  A missing coordinate gives NaN,
\* modelled as None: every comparison with it is false.
calculateDistance(coord1, coord2) ==
    IF coord1.lat = None \/ coord1.lng = None \/ coord2.lat = None \/ coord2.lng = None
    THEN None
    ELSE Some(Abs(coord2.lat[1] - coord1.lat[1]) + Abs(coord2.lng[1] - coord1.lng[1]))

\* walkingSpeedMph = 3.1, in tenths of a mile per hour
walkingSpeedMphTenths == 31

\* 1.60934 km per mile, in units of 10^-5 km
kmPerMileE5 == 160934

\* walkingTimeToDistanceKm without the conversion of miles to kilometres
walkingTimeToDistanceMiles(minutes) == minutes * walkingSpeedMphTenths * 100000

\* walkingTimeToDistanceKm(minutes) = (minutes / 60) * 3.1 * 1.60934 km, kept
\* exact: the result is in units of 1/60000 metre (km * 60 * 10 * 10^5).
walkingTimeToDistanceKm(minutes) == minutes * walkingSpeedMphTenths * kmPerMileE5

MetreUnits == 60000

\* distanceKm <= walkingDistanceKm, for a distance in metres (false for NaN)
WithinWalkingDistance(distanceM, walkingDistanceKm) ==
    /\ distanceM # None
    /\ distanceM[1] * MetreUnits <= walkingDistanceKm

\* 0.621371 miles per km, in units of 10^-6 mile
milesPerKmE6 == 621371

\* distanceKm * 0.621371 for a distance in units of 1/60000 metre: the miles
\* in units of 1/60000 mile, rounded down.  The product is formed from the
\* base-1000 digits of both factors, so that no intermediate value exceeds
\* 32 bits: d * 621371 = p3 * 10^9 + p2 * 10^6 + p1 * 10^3 + p0.
distanceMilesOf(distanceKm) ==
    LET d0 == distanceKm % 1000
        d1 == (distanceKm \div 1000) % 1000
        d2 == distanceKm \div 1000000
        c0 == milesPerKmE6 % 1000
        c1 == milesPerKmE6 \div 1000
        p0 == d0 * c0
        p1 == d0 * c1 + d1 * c0
        p2 == d1 * c1 + d2 * c0
        p3 == d2 * c1
    IN  p3 + ((p2 + ((p1 + (p0 \div 1000)) \div 1000)) \div 1000)

\* `${n}` for a non-negative integer n: its decimal digits
RECURSIVE toDigits(_)
toDigits(n) ==
    LET digit == <<"0", "1", "2", "3", "4", "5", "6", "7", "8", "9">>[(n % 10) + 1]
    IN  IF n < 10 THEN <<digit>> ELSE Append(toDigits(n \div 10), digit)

\* calculateWalkingTime(distanceKm) for a distance in units of 1/60000 metre.
\* minutes = (distanceMiles / 3.1) * 60 is distanceMilesOf / 3100 here, so
\* that Math.floor(minutes) = miles \div 3100 and
\* Math.round(minutes) = (miles + 1550) \div 3100;
\* Math.round(minutes % 60) = Math.round(minutes) - 60 * hours.
calculateWalkingTime(distanceKm) ==
    LET miles == distanceMilesOf(distanceKm)
        perMinute == walkingSpeedMphTenths * 100
        wholeMinutes == miles \div perMinute
        roundedMinutes == (miles + (perMinute \div 2)) \div perMinute
        hours == wholeMinutes \div 60
        remainingMinutes == roundedMinutes - 60 * hours
    IN  IF wholeMinutes < 1 THEN <<"<", " ", "1", " ", "m", "i", "n">>
        ELSE IF wholeMinutes < 60 THEN toDigits(roundedMinutes) \o <<" ", "m", "i", "n">>
        ELSE IF remainingMinutes = 0
             THEN toDigits(hours) \o <<" ", "h", "r">>
                  \o (IF hours > 1 THEN <<"s">> ELSE <<>>)
        ELSE toDigits(hours) \o <<" ", "h", "r", " ">>
             \o toDigits(remainingMinutes) \o <<" ", "m", "i", "n">>

-----------------------------------------------------------------------------
(* Charger normalizer (services/openChargeMap parseChargerData).           *)

RECURSIVE SeqMax(_)
SeqMax(s) == IF Len(s) = 1 THEN s[1]
             ELSE LET m == SeqMax(Tail(s)) IN IF s[1] >= m THEN s[1] ELSE m

RECURSIVE SeqMin(_)
SeqMin(s) == IF Len(s) = 1 THEN s[1]
             ELSE LET m == SeqMin(Tail(s)) IN IF s[1] <= m THEN s[1] ELSE m

Positive(p) == p > 0

\* connections.map((c) => c.PowerKW || 0).filter(p => p > 0)
powerValues(charger) ==
    LET connections == OrEmpty(charger.Connections)
    IN  SelectSeq([i \in DOMAIN connections |-> OrZero(connections[i].PowerKW)], Positive)

maxPowerOf(charger) ==
    LET pv == powerValues(charger) IN IF Len(pv) > 0 THEN SeqMax(pv) ELSE 0

minPowerOf(charger) ==
    LET pv == powerValues(charger) IN IF Len(pv) > 0 THEN SeqMin(pv) ELSE 0

Level1MaxW == 3700

Level2MaxW == 22000

\* derivePowerTier with the cut points taken as strict upper limits
derivePowerTierStrict(maxPower) ==
    IF maxPower < Level1MaxW THEN "level1"
    ELSE IF maxPower < Level2MaxW THEN "level2"
    ELSE "dc_fast"

derivePowerTier(maxPower) ==
    IF maxPower <= Level1MaxW THEN "level1"
    ELSE IF maxPower <= Level2MaxW THEN "level2"
    ELSE IF maxPower > Level2MaxW THEN "dc_fast"
    ELSE "unknown"

\* deriveAccessCategory with the title rules consulted from the last to the first
deriveAccessCategoryLastRuleFirst(charger) ==
    LET usage == charger.UsageType
        title == toLowerCase(OrEmpty(Chain(usage, "Title")))
    IN  IF IsTrue(Chain(usage, "IsMembershipRequired")) THEN "permit"
        ELSE IF IsTrue(Chain(usage, "IsAccessKeyRequired")) THEN "restricted"
        ELSE IF includes(title, S_restricted) THEN "restricted"
        ELSE IF includes(title, S_private) THEN "private"
        ELSE IF includes(title, S_public) THEN "public"
        ELSE IF includes(title, S_parking) THEN "parking"
        ELSE "unknown"

deriveAccessCategory(charger) ==
    LET usage == charger.UsageType
        title == toLowerCase(OrEmpty(Chain(usage, "Title")))
    IN  IF IsTrue(Chain(usage, "IsMembershipRequired")) THEN "permit"
        ELSE IF IsTrue(Chain(usage, "IsAccessKeyRequired")) THEN "restricted"
        ELSE IF includes(title, S_parking) THEN "parking"
        ELSE IF includes(title, S_public) THEN "public"
        ELSE IF includes(title, S_private) THEN "private"
        ELSE IF includes(title, S_restricted) THEN "restricted"
        ELSE "unknown"

\* charger.UsageType?.IsPayAtLocation ?? false
isPayAtLocationOf(charger) == Coalesce(Chain(charger.UsageType, "IsPayAtLocation"), FALSE)

\* isFree with a missing usage cost counted as free unless pay-at-location
deriveIsFreeWhenNoCost(charger) ==
    LET usageCost == OrEmpty(charger.UsageCost)
    IN  /\ usageCost = <<>> \/ includes(toLowerCase(usageCost), S_free)
        /\ ~isPayAtLocationOf(charger)

deriveIsFree(charger) ==
    LET usageCost == OrEmpty(charger.UsageCost)
    IN  /\ usageCost # <<>>
        /\ includes(toLowerCase(usageCost), S_free)
        /\ ~isPayAtLocationOf(charger)

\* the cost label with the pay-at-location flag consulted before the text
deriveCostFlagFirst(charger) ==
    LET usageCost == OrEmpty(charger.UsageCost)
    IN  IF isPayAtLocationOf(charger) THEN S_PayAtLocation
        ELSE IF usageCost # <<>> THEN usageCost
        ELSE S_Paid

deriveCost(charger) ==
    LET usageCost == OrEmpty(charger.UsageCost)
    IN  IF usageCost # <<>> THEN usageCost
        ELSE IF deriveIsFree(charger) THEN S_Free
        ELSE IF isPayAtLocationOf(charger) THEN S_PayAtLocation
        ELSE S_Paid

isNonOperationalStatus(statusTitle) ==
    \/ includes(statusTitle, S_unavailable)
    \/ includes(statusTitle, S_planned)
    \/ includes(statusTitle, S_removed)
    \/ includes(statusTitle, S_decommissioned)

connectionOperational(charger) ==
    LET connections == OrEmpty(charger.Connections)
    IN  \E i \in DOMAIN connections :
            IsTrue(Chain(connections[i].StatusType, "IsOperational"))

\* isOperational with the station's flag consulted before the status title
deriveIsOperationalFlagFirst(charger) ==
    LET statusType == charger.StatusType
        statusTitle == toLowerCase(OrEmpty(Chain(statusType, "Title")))
        flag == Chain(statusType, "IsOperational")
    IN  IF flag # None THEN flag
        ELSE IF isNonOperationalStatus(statusTitle) THEN Some(FALSE)
        ELSE IF connectionOperational(charger) THEN Some(TRUE)
        ELSE None

deriveIsOperational(charger) ==
    LET statusType == charger.StatusType
        statusTitle == toLowerCase(OrEmpty(Chain(statusType, "Title")))
        flag == Chain(statusType, "IsOperational")
    IN  IF IsFalse(flag) \/ isNonOperationalStatus(statusTitle) THEN Some(FALSE)
        ELSE IF IsTrue(flag) THEN Some(TRUE)
        ELSE IF connectionOperational(charger) THEN Some(TRUE)
        ELSE None

connectorData(charger) ==
    LET connections == OrEmpty(charger.Connections)
    IN  [i \in DOMAIN connections |->
            [type |-> OrString(Chain(connections[i].ConnectionType, "Title"), S_Unknown),
             power |-> OrZero(connections[i].PowerKW),
             status |-> LET t == Chain(connections[i].StatusType, "Title")
                        IN  IF t = Some(<<>>) THEN None ELSE t,
             statusIsOperational |-> Chain(connections[i].StatusType, "IsOperational")]]

\* (o || {}) without the fallback: o itself
OrObjectNoFallback(o, empty) == o

\* (o || {}) : the object o, an object without any field set when o is null
\* or undefined
OrObject(o, empty) == IF o = None THEN Some(empty) ELSE o

\* parseChargerData throws a TypeError when it reads a property of, or calls a
\* method on, null or undefined.  It does so, without ?. , on the usage type
\* and the status type (each behind || {}), on their titles and on the usage
\* cost (toLowerCase, each behind || ''), and on the connection list (map and
\* some, behind || []).
parseRaises(charger) ==
    LET usage == OrObject(charger.UsageType,
                          [Title |-> None, IsMembershipRequired |-> None,
                           IsAccessKeyRequired |-> None, IsPayAtLocation |-> None])
        statusType == OrObject(charger.StatusType, [Title |-> None, IsOperational |-> None])
        title == IF usage = None THEN None ELSE Some(OrEmpty(usage[1].Title))
        statusTitle == IF statusType = None THEN None ELSE Some(OrEmpty(statusType[1].Title))
        usageCost == Some(OrEmpty(charger.UsageCost))
        connections == Some(OrEmpty(charger.Connections))
    IN  \/ usage = None
        \/ title = None
        \/ statusType = None
        \/ statusTitle = None
        \/ usageCost = None
        \/ connections = None

\* The record parseChargerData returns; name, address, operator, comments,
\* numberOfPoints and the status id, title and date are display texts that no
\* derivation reads and are left out.
parseChargerData(charger) ==
    LET maxPower == maxPowerOf(charger)
        minPower == minPowerOf(charger)
        hasMultiplePowerLevels == Len(powerValues(charger)) > 1 /\ minPower # maxPower
        connectors == connectorData(charger)
    IN  [id |-> charger.ID,
         location |-> [lat |-> Chain(charger.AddressInfo, "Latitude"),
                       lng |-> Chain(charger.AddressInfo, "Longitude")],
         powerTier |-> derivePowerTier(maxPower),
         maxPower |-> maxPower,
         minPower |-> IF hasMultiplePowerLevels THEN Some(minPower) ELSE None,
         hasMultiplePowerLevels |-> hasMultiplePowerLevels,
         isFree |-> deriveIsFree(charger),
         cost |-> deriveCost(charger),
         status |-> [isOperational |-> deriveIsOperational(charger)],
         access |-> [category |-> deriveAccessCategory(charger)],
         connectors |-> connectors,
         availability |-> [hasLiveStatus |->
                              \E i \in DOMAIN connectors : connectors[i].status # None]]

-----------------------------------------------------------------------------
(* SpecParse: the raw records parseChargerData is applied to.              *)

OptBool == {None, Some(TRUE), Some(FALSE)}

OptFlag == {None, Some(TRUE)}

UsageCostValues ==
    {None, Some(<<>>), Some(T_free), Some(T_FREE), Some(T_FreeCharging), Some(T_Price)}

UsageTitleValues == {None, Some(T_Public), Some(T_PrivateRestricted)}

UsageTypeValues ==
    {None} \cup
    {Some(u) : u \in [Title : UsageTitleValues,
                      IsMembershipRequired : OptFlag,
                      IsAccessKeyRequired : OptFlag,
                      IsPayAtLocation : OptBool]}

StatusTitleValues ==
    {None, Some(T_Operational), Some(T_TempUnavailable), Some(T_PlannedForFuture),
     Some(T_Removed), Some(T_Decommissioned)}

StatusTypeValues ==
    {None} \cup {Some(st) : st \in [Title : StatusTitleValues, IsOperational : OptBool]}

ConnStatus(op) == Some([Title |-> None, IsOperational |-> op])

ConnType(t) == Some([Title |-> Some(t)])

\* One connection of a record: its power (watts), type and status.
ConnectionValues ==
    {[PowerKW |-> None,        ConnectionType |-> None,             StatusType |-> None],
     [PowerKW |-> Some(0),     ConnectionType |-> ConnType(T_CCS),  StatusType |-> ConnStatus(Some(FALSE))],
     [PowerKW |-> Some(3700),  ConnectionType |-> ConnType(T_Type2), StatusType |-> ConnStatus(Some(TRUE))],
     [PowerKW |-> Some(3701),  ConnectionType |-> ConnType(T_Type2), StatusType |-> None],
     [PowerKW |-> Some(22000), ConnectionType |-> ConnType(T_Type2), StatusType |-> ConnStatus(None)],
     [PowerKW |-> Some(22001), ConnectionType |-> ConnType(T_CCS),  StatusType |-> None]}

MaxConnections == 2

SeqsUpTo(S, n) == UNION {[1..k -> S] : k \in 0..n}

ConnectionsValues == {None} \cup {Some(cs) : cs \in SeqsUpTo(ConnectionValues, MaxConnections)}

AddressInfoValues == {None, Some([Latitude |-> Some(1100), Longitude |-> Some(0)])}

\* Every combination of the fields one derivation reads, against a few
\* settings of the fields it does not read.
CostFamily ==
    [ID : {1},
     AddressInfo : {None},
     Connections : {None, Some(<<>>)},
     UsageCost : UsageCostValues,
     UsageType : UsageTypeValues,
     StatusType : {None, Some([Title |-> Some(T_Operational), IsOperational |-> Some(TRUE)])}]

StatusFamily ==
    [ID : {1},
     AddressInfo : AddressInfoValues,
     Connections : ConnectionsValues,
     UsageCost : {None, Some(T_FreeCharging)},
     UsageType : {None},
     StatusType : StatusTypeValues]

AccessTitleValues ==
    {None, Some(<<>>), Some(T_Public), Some(T_PublicParking), Some(T_PublicRestricted),
     Some(T_PrivateRestricted), Some(T_RestrictedAccess), Some(T_UnknownUsage)}

AccessFamily ==
    [ID : {1},
     AddressInfo : {None},
     Connections : {None},
     UsageCost : {None},
     UsageType : {Some(u) : u \in [Title : AccessTitleValues,
                                   IsMembershipRequired : OptBool,
                                   IsAccessKeyRequired : OptBool,
                                   IsPayAtLocation : {None}]},
     StatusType : {None}]

RawChargers == CostFamily \cup StatusFamily \cup AccessFamily

-----------------------------------------------------------------------------
(* Sequence helpers.                                                       *)

RECURSIVE Flatten(_)
Flatten(ss) == IF ss = <<>> THEN <<>> ELSE Head(ss) \o Flatten(Tail(ss))

\* Array.prototype.sort; cmp[i, j] is the comparator's result for the elements
\* at i and j (negative: the one at i first).  The sort is stable: element i
\* precedes element j when the comparator puts it first, or when it returns 0
\* (or NaN) and i < j.
StableSort(s, cmp) ==
    LET rank(i) == Cardinality({j \in DOMAIN s :
                        \/ cmp[j, i] < 0
                        \/ (cmp[j, i] = 0 /\ j < i)}) + 1
    IN  [k \in DOMAIN s |-> s[CHOOSE i \in DOMAIN s : rank(i) = k]]

-----------------------------------------------------------------------------
(* Upstream data: the places and chargers the providers know.              *)

ApiPlace(id, lat) == [id |-> id, location |-> Some([lat |-> Some(lat), lng |-> Some(0)])]

\* Where the initial location lookup may resolve, and where the map may be
\* centred when the user presses Search Again.
StartLocations == {1000}

MapCenters == {2700}

\* What Place.searchByText answers for a search centred at `center`: the
\* location only biases the search, so a place outside the radius (C) may be
\* returned, and a record may carry no location (D) or no longitude (E).
SearchResponse(center) ==
    CASE center = 1000 -> <<ApiPlace("B", 2000), [id |-> "D", location |-> None],
                            ApiPlace("A", 1000),
                            [id |-> "E", location |-> Some([lat |-> Some(1500), lng |-> None])],
                            ApiPlace("C", 20000)>>
      [] OTHER -> <<ApiPlace("A", 1000), ApiPlace("B", 2000)>>

\* The elements of the distance-matrix answer whose status is not OK.
MatrixFailures(center) == IF center = 2700 THEN {"B"} ELSE {}

Coord(lat) == [lat |-> Some(lat), lng |-> Some(0)]

Conn(power, type, status) ==
    [PowerKW |-> Some(power), ConnectionType |-> ConnType(type), StatusType |-> status]

\* The charger records Open Charge Map holds.
ChargerCatalogue ==
    << [ID |-> 1,
        AddressInfo |-> Some([Latitude |-> Some(1100), Longitude |-> Some(0)]),
        Connections |-> Some(<<Conn(7400, T_Type2, None)>>),
        UsageCost |-> Some(T_FreeCharging),
        UsageType |-> Some([Title |-> Some(T_Public), IsMembershipRequired |-> None,
                            IsAccessKeyRequired |-> None, IsPayAtLocation |-> Some(FALSE)]),
        StatusType |-> Some([Title |-> Some(T_Operational), IsOperational |-> Some(TRUE)])],
       [ID |-> 2,
        AddressInfo |-> Some([Latitude |-> Some(1300), Longitude |-> Some(0)]),
        Connections |-> Some(<<Conn(50000, T_CCS, None)>>),
        UsageCost |-> Some(T_Price),
        UsageType |-> None,
        StatusType |-> None],
       [ID |-> 3,
        AddressInfo |-> Some([Latitude |-> Some(1500), Longitude |-> Some(0)]),
        Connections |-> Some(<<Conn(22000, T_Type2, ConnStatus(Some(TRUE)))>>),
        UsageCost |-> None,
        UsageType |-> Some([Title |-> Some(T_Public), IsMembershipRequired |-> None,
                            IsAccessKeyRequired |-> None, IsPayAtLocation |-> Some(TRUE)]),
        StatusType |-> None],
       [ID |-> 4,
        AddressInfo |-> Some([Latitude |-> Some(2100), Longitude |-> Some(0)]),
        Connections |-> None,
        UsageCost |-> Some(T_FREE),
        UsageType |-> Some([Title |-> Some(T_PrivateRestricted), IsMembershipRequired |-> None,
                            IsAccessKeyRequired |-> None, IsPayAtLocation |-> None]),
        StatusType |-> Some([Title |-> Some(T_TempUnavailable), IsOperational |-> None])],
       [ID |-> 5,
        AddressInfo |-> Some([Latitude |-> Some(20100), Longitude |-> Some(0)]),
        Connections |-> Some(<<Conn(50000, T_CCS, None)>>),
        UsageCost |-> Some(T_Price),
        UsageType |-> None,
        StatusType |-> Some([Title |-> None, IsOperational |-> Some(TRUE)])] >>

\* The provider measures distances its own way: it may return a charger up to
\* UpstreamSlackM metres beyond the requested distance.
UpstreamSlackM == 200

\* response.data of the Open Charge Map request for one location
UpstreamChargers(location, distance) ==
    LET near(c) ==
            LET d == calculateDistance(location,
                         [lat |-> Chain(c.AddressInfo, "Latitude"),
                          lng |-> Chain(c.AddressInfo, "Longitude")])
            IN  d # None /\ (d[1] - UpstreamSlackM) * MetreUnits <= distance
    IN  SelectSeq(ChargerCatalogue, near)

-----------------------------------------------------------------------------
(* services/openChargeMap getNearbyChargers, getChargersForLocations.      *)

\* the pre-filter's own isFree
preFilterIsFree(charger) ==
    LET usageCost == OrEmpty(charger.UsageCost)
        isPayAtLocation == Coalesce(Chain(charger.UsageType, "IsPayAtLocation"), FALSE)
    IN  /\ usageCost # <<>>
        /\ includes(toLowerCase(usageCost), S_free)
        /\ ~isPayAtLocation

preFilterSpeed(charger, speed) ==
    LET connections == OrEmpty(charger.Connections)
    IN  IF Len(connections) = 0 THEN FALSE
        ELSE LET maxPower == SeqMax([i \in DOMAIN connections |->
                                        OrZero(connections[i].PowerKW)])
             IN  CASE speed = "level1" -> maxPower <= Level1MaxW
                   [] speed = "level2" -> maxPower > Level1MaxW /\ maxPower <= Level2MaxW
                   [] speed = "dc_fast" -> maxPower > Level2MaxW
                   [] OTHER -> TRUE

\* apiFilters is [free : option of boolean, speed : option of tier]
getNearbyChargers(location, distance, apiFilters) ==
    LET data == UpstreamChargers(location, distance)
        keepFree(c) == IF apiFilters.free[1] THEN preFilterIsFree(c) ELSE ~preFilterIsFree(c)
        byFree == IF apiFilters.free # None THEN SelectSeq(data, keepFree) ELSE data
        keepSpeed(c) == preFilterSpeed(c, apiFilters.speed[1])
    IN  IF apiFilters.speed # None THEN SelectSeq(byFree, keepSpeed) ELSE byFree

getChargersForLocations(locations, distance, apiFilters) ==
    [i \in DOMAIN locations |-> getNearbyChargers(locations[i], distance, apiFilters)]

-----------------------------------------------------------------------------
(* services/googleMaps searchPlaces, getMultipleDistances.                 *)

\* formattedResults without the filter on lat and lng
searchPlacesUnfiltered(response) ==
    [i \in DOMAIN response |->
        [place_id |-> response[i].id,
         geometry |-> [location |->
             [lat |-> Chain(response[i].location, "lat"),
              lng |-> Chain(response[i].location, "lng")]],
         chargerCount |-> None,
         featuredCharger |-> None]]

\* formattedResults: the records with a numeric lat and lng
searchPlaces(response) ==
    LET formatted == [i \in DOMAIN response |->
            [place_id |-> response[i].id,
             geometry |-> [location |->
                 [lat |-> Chain(response[i].location, "lat"),
                  lng |-> Chain(response[i].location, "lng")]],
             chargerCount |-> None,
             featuredCharger |-> None]]
        numeric(p) == p.geometry.location.lat # None /\ p.geometry.location.lng # None
    IN  SelectSeq(formatted, numeric)

\* One result per destination; distanceValue is null when the element's
\* status is not OK.  The driving distance is the distance along the line.
getMultipleDistances(origin, placeResults, failed) ==
    [i \in DOMAIN placeResults |->
        [distanceValue |->
            IF placeResults[i].place_id \in failed THEN None
            ELSE calculateDistance(Coord(origin), placeResults[i].geometry.location)]]

-----------------------------------------------------------------------------
(* components/MapView: the computations of loadDataFromLocation.           *)

defaultFilters ==
    [operational |-> FALSE, access |-> "all", cost |-> "all", speed |-> "all",
     connectors |-> <<>>, walkingTime |-> 5, searchRadius |-> 10]

\* 1609.34 metres per mile, in hundredths of a metre
metresPerMileE2 == 160934

DefaultRadiusMiles == 2

DefaultWalkingMinutes == 5

\* (filters.searchRadius || 2) * 1609.34, in hundredths of a metre
searchRadiusMeters(f) ==
    (IF f.searchRadius = 0 THEN DefaultRadiusMiles ELSE f.searchRadius) * metresPerMileE2

CentiMetres == 100

\* distanceMap[place.place_id] = distanceResults[index]
distanceMapOf(placeResults, distanceResults) ==
    [id \in {placeResults[i].place_id : i \in DOMAIN placeResults} |->
        distanceResults[CHOOSE i \in DOMAIN placeResults :
            /\ placeResults[i].place_id = id
            /\ \A j \in DOMAIN placeResults : placeResults[j].place_id = id => j <= i]]

\* distanceMap[id]?.distanceValue
distanceValueOf(dm, id) == IF id \in DOMAIN dm THEN dm[id].distanceValue ELSE None

placesWithinRadiusOf(placeResults, dm, f) ==
    LET within(place) ==
            LET distanceValue == distanceValueOf(dm, place.place_id)
            IN  \/ (place.place_id \in DOMAIN dm /\ distanceValue = None)
                \/ (distanceValue # None
                    /\ distanceValue[1] * CentiMetres <= searchRadiusMeters(f))
    IN  SelectSeq(placeResults, within)

\* distanceMap[id]?.distanceValue || Infinity : None stands for Infinity
sortKey(dm, id) ==
    LET v == distanceValueOf(dm, id) IN IF v = None \/ v[1] = 0 THEN None ELSE v

\* distA - distB, with Infinity - Infinity = NaN, which sort treats as 0
compareByDistance(dm, a, b) ==
    LET distA == sortKey(dm, a.place_id)
        distB == sortKey(dm, b.place_id)
    IN  IF distA = None /\ distB = None THEN 0
        ELSE IF distA = None THEN 1
        ELSE IF distB = None THEN -1
        ELSE distA[1] - distB[1]

sortByDistance(ps, dm) ==
    StableSort(ps, [i \in DOMAIN ps, j \in DOMAIN ps |-> compareByDistance(dm, ps[i], ps[j])])

apiFiltersOf(f) ==
    [free |-> IF f.cost = "free" THEN Some(TRUE)
              ELSE IF f.cost = "paid" THEN Some(FALSE) ELSE None,
     speed |-> IF f.speed # "all" THEN Some(f.speed) ELSE None]

\* filters.walkingTime || 5
walkingTimeMinutesOf(f) == IF f.walkingTime = 0 THEN DefaultWalkingMinutes ELSE f.walkingTime

\* the correlation of one place without the walking-distance filter
parsedChargersOfUnfiltered(placeResults, index, locationChargers, walkingDistanceKm) ==
    LET placeLocation == placeResults[index].geometry.location
        parsedAll == [i \in DOMAIN locationChargers |-> parseChargerData(locationChargers[i])]
    IN  [i \in DOMAIN parsedAll |->
            parsedAll[i] @@ [placeId |-> placeResults[index].place_id,
                             distanceFromPlace |->
                                 calculateDistance(placeLocation, parsedAll[i].location)]]

\* The chargers kept for the place at `index` of placeResults: parsed, within
\* walking distance of the place, stamped with its id and their distance.
parsedChargersOf(placeResults, index, locationChargers, walkingDistanceKm) ==
    LET placeLocation == placeResults[index].geometry.location
        parsedAll == [i \in DOMAIN locationChargers |-> parseChargerData(locationChargers[i])]
        keep(charger) ==
            WithinWalkingDistance(calculateDistance(placeLocation, charger.location),
                                  walkingDistanceKm)
        kept == SelectSeq(parsedAll, keep)
    IN  [i \in DOMAIN kept |->
            kept[i] @@ [placeId |-> placeResults[index].place_id,
                        distanceFromPlace |->
                            calculateDistance(placeLocation, kept[i].location)]]

\* allChargersOf keeping only the first copy of each charger id
allChargersDeduplicated(placeResults, f) ==
    LET placeLocations == [i \in DOMAIN placeResults |-> placeResults[i].geometry.location]
        walkingDistanceKm == walkingTimeToDistanceKm(walkingTimeMinutesOf(f))
        chargerResults ==
            getChargersForLocations(placeLocations, walkingDistanceKm, apiFiltersOf(f))
        all == Flatten([index \in DOMAIN chargerResults |->
                  parsedChargersOf(placeResults, index, chargerResults[index],
                                   walkingDistanceKm)])
        firstCopies == {i \in DOMAIN all : \A j \in 1..(i - 1) : all[j].id # all[i].id}
    IN  [n \in 1..Cardinality(firstCopies) |->
            all[CHOOSE i \in firstCopies :
                   Cardinality({j \in firstCopies : j <= i}) = n]]

allChargersOf(placeResults, f) ==
    LET placeLocations == [i \in DOMAIN placeResults |-> placeResults[i].geometry.location]
        walkingDistanceKm == walkingTimeToDistanceKm(walkingTimeMinutesOf(f))
        chargerResults ==
            getChargersForLocations(placeLocations, walkingDistanceKm, apiFiltersOf(f))
    IN  Flatten([index \in DOMAIN chargerResults |->
            parsedChargersOf(placeResults, index, chargerResults[index], walkingDistanceKm)])

\* sortedPlaces.map(place => ({...place, chargerCount}))
updatedPlacesOf(sortedPlaces, allChargers) ==
    [i \in DOMAIN sortedPlaces |->
        LET attached(c) == c.placeId = sortedPlaces[i].place_id
        IN  [sortedPlaces[i] EXCEPT
                !.chargerCount = Some(Len(SelectSeq(allChargers, attached)))]]

-----------------------------------------------------------------------------
(* components/MapView: the computations of the apply-filters effect.       *)

\* places.find((p) => p.place_id === charger.placeId)
findPlace(ps, placeId) ==
    IF \E i \in DOMAIN ps : ps[i].place_id = placeId
    THEN Some(ps[CHOOSE i \in DOMAIN ps :
                    /\ ps[i].place_id = placeId
                    /\ \A j \in DOMAIN ps : ps[j].place_id = placeId => i <= j])
    ELSE None

passesOperational(c, f) == f.operational => IsTrue(c.status.isOperational)

passesAccess(c, f) == f.access # "all" => c.access.category = f.access

passesCost(c, f) ==
    f.cost # "all" => (IF f.cost = "free" THEN c.isFree ELSE c.isFree = FALSE)

passesSpeed(c, f) == f.speed # "all" => c.powerTier = f.speed

passesConnectors(c, f) ==
    Len(f.connectors) > 0 =>
        \E k \in DOMAIN f.connectors :
            \E i \in DOMAIN c.connectors : c.connectors[i].type = f.connectors[k]

passesWalkingTime(c, f, ps) ==
    f.walkingTime # 0 =>
        LET place == findPlace(ps, c.placeId)
        IN  /\ place # None
            /\ WithinWalkingDistance(
                   calculateDistance(place[1].geometry.location, c.location),
                   walkingTimeToDistanceKm(f.walkingTime))

filteredOf(cs, ps, f) ==
    LET keep(c) == /\ passesOperational(c, f)
                   /\ passesAccess(c, f)
                   /\ passesCost(c, f)
                   /\ passesSpeed(c, f)
                   /\ passesConnectors(c, f)
                   /\ passesWalkingTime(c, f, ps)
    IN  SelectSeq(cs, keep)

\* the comparator of the featured-charger sort
compareFeatured(a, b) ==
    LET opA == IF IsTrue(a.status.isOperational) THEN 1 ELSE 0
        opB == IF IsTrue(b.status.isOperational) THEN 1 ELSE 0
    IN  IF opB # opA THEN opB - opA ELSE b.maxPower - a.maxPower

\* [...placeChargers].sort(...)[0]
featuredChargerOf(placeChargers) ==
    IF Len(placeChargers) = 0 THEN None
    ELSE Some(StableSort(placeChargers,
                         [i \in DOMAIN placeChargers, j \in DOMAIN placeChargers |->
                             compareFeatured(placeChargers[i], placeChargers[j])])[1])

\* annotatedPlacesOf with the count added to the count the place already has
annotatedPlacesAccumulating(ps, filtered) ==
    [i \in DOMAIN ps |->
        LET attached(c) == c.placeId = ps[i].place_id
            placeChargers == SelectSeq(filtered, attached)
        IN  [ps[i] EXCEPT !.chargerCount =
                              Some(OrZero(ps[i].chargerCount) + Len(placeChargers)),
                          !.featuredCharger = featuredChargerOf(placeChargers)]]

annotatedPlacesOf(ps, filtered) ==
    [i \in DOMAIN ps |->
        LET attached(c) == c.placeId = ps[i].place_id
            placeChargers == SelectSeq(filtered, attached)
        IN  [ps[i] EXCEPT !.chargerCount = Some(Len(placeChargers)),
                          !.featuredCharger = featuredChargerOf(placeChargers)]]

\* sortedPlaces.map(p => `${p.place_id}:${p.chargerCount || 0}`).join(','):
\* the sequence of (place id, count) pairs; '' is the empty sequence
signatureOf(ps) == [i \in DOMAIN ps |-> <<ps[i].place_id, OrZero(ps[i].chargerCount)>>]

\* One pass of the effect over (chargers, places, filters, distances)
filterPass(cs, ps, f, dm) ==
    LET filtered == filteredOf(cs, ps, f)
        sortedPlaces == sortByDistance(annotatedPlacesOf(ps, filtered), dm)
    IN  [filtered |-> filtered,
         sortedPlaces |-> sortedPlaces,
         newSignature |-> signatureOf(sortedPlaces)]

-----------------------------------------------------------------------------
(* components/MapView: state, handlers, effects and the steps of a load.   *)

\* The values the controls of the filter panel offer in the model.
AccessValues == {"all", "public"}

CostValues == {"all", "free", "paid"}

SpeedValues == {"all", "level1", "dc_fast"}

ConnectorSelections == {<<>>, <<T_CCS>>}

WalkingTimes == {5, 10}

SearchRadii == {10}

\* The criteria, other than walking time and search radius, that may be set
\* away from their default at the same time.
MaxActiveCriteria == 1

ActiveCriteria(f) ==
    (IF f.operational THEN 1 ELSE 0) + (IF f.access # "all" THEN 1 ELSE 0)
    + (IF f.cost # "all" THEN 1 ELSE 0) + (IF f.speed # "all" THEN 1 ELSE 0)
    + (IF Len(f.connectors) > 0 THEN 1 ELSE 0)

\* The criteria the panel publishes after one control was changed and Apply
\* pressed; several changes are several Apply's.
FiltersAfterEdit(f) ==
    LET edits ==
            {[f EXCEPT !.operational = ~f.operational]}
            \cup {[f EXCEPT !.access = v] : v \in AccessValues \ {f.access}}
            \cup {[f EXCEPT !.cost = v] : v \in CostValues \ {f.cost}}
            \cup {[f EXCEPT !.speed = v] : v \in SpeedValues \ {f.speed}}
            \cup {[f EXCEPT !.connectors = v] : v \in ConnectorSelections \ {f.connectors}}
            \cup {[f EXCEPT !.walkingTime = v] : v \in WalkingTimes \ {f.walkingTime}}
            \cup {[f EXCEPT !.searchRadius = v] : v \in SearchRadii \ {f.searchRadius}}
    IN  {g \in edits : ActiveCriteria(g) <= MaxActiveCriteria}

\* The loadDataFromLocation calls that may be in flight together.
MaxLoads == 2

\* The loads that may fail upstream (an empty search result, a rejected
\* request) in one run.
MaxFailures == 1

\* loads lists the calls in flight, in the order they were started.
IdleCount(ls) == MaxLoads - Len(ls)

\* The fields of filters that loadDataFromLocation reads.
closureOf(f) ==
    [walkingTime |-> f.walkingTime, searchRadius |-> f.searchRadius,
     cost |-> f.cost, speed |-> f.speed]

\* loadDataFromLocation(centerLocation) up to its first await.  f holds the
\* fields of the filters object the memoized callback closed over; watchdog
\* tells that the 15 s timer of the call is set and has not fired.
StartLoad(ls, centerLocation, f) ==
    Append(ls, [pc |-> "search", centerLocation |-> centerLocation,
                filters |-> f, placeResults |-> <<>>, sortedPlaces |-> <<>>,
                watchdog |-> TRUE])

\* the call at position k returned
EndLoad(ls, k) == SubSeq(ls, 1, k - 1) \o SubSeq(ls, k + 1, Len(ls))

ErrNoLocations == "No locations found"

ErrNoneWithinRadius == "No locations found within radius"

ErrRequest == "request failed"

EmptyMap == [id \in {} |-> None]

ViewInit ==
    /\ places = <<>>
    /\ chargers = <<>>
    /\ filteredChargers = <<>>
    /\ distances = EmptyMap
    /\ filters = defaultFilters
    /\ isLoading = TRUE
    /\ error = None
    /\ searchCenter = None
    /\ previousPlacesSignature = <<>>
    /\ loadFilters = closureOf(defaultFilters)
    /\ loads = <<>>
    /\ initPc = "idle"
    /\ pending = {"init"}
    /\ published = None
    /\ failures = 0

\* The user acts when no effect is pending and no request is in flight.
Quiet == pending = {} /\ loads = <<>> /\ initPc = "idle"

\* The initial-load effect: it runs initializeLocation, which awaits the
\* location lookup (geolocation, or geocoding of the custom address).
InitialLoadEffect ==
    /\ "init" \in pending
    /\ initPc' = "locating"
    /\ pending' = pending \ {"init"}
    /\ UNCHANGED <<places, chargers, filteredChargers, distances, filters, isLoading,
                   error, searchCenter, previousPlacesSignature, loadFilters, loads,
                   published>>
    /\ UNCHANGED <<parseVars, failures>>

\* initializeLocation after the lookup: setSearchCenter, loadDataFromLocation.
LocationResolved(startLocation) ==
    /\ pending = {}
    /\ initPc = "locating"
    /\ IdleCount(loads) >= 2
    /\ initPc' = "idle"
    /\ searchCenter' = Some(startLocation)
    /\ loads' = StartLoad(loads, startLocation, loadFilters)
    /\ isLoading' = TRUE
    /\ error' = None
    /\ pending' = {"reload"}
    /\ UNCHANGED <<places, chargers, filteredChargers, distances, filters,
                   previousPlacesSignature, loadFilters, published>>
    /\ UNCHANGED <<parseVars, failures>>

\* The effect that reloads when searchRadius, searchCenter or
\* loadDataFromLocation changed.
ReloadEffect ==
    /\ "reload" \in pending
    /\ "init" \notin pending
    /\ pending' = pending \ {"reload"}
    /\ IF searchCenter # None
       THEN /\ loads' = StartLoad(loads, searchCenter[1], loadFilters)
            /\ isLoading' = TRUE
            /\ error' = None
       ELSE UNCHANGED <<loads, isLoading, error>>
    /\ UNCHANGED <<places, chargers, filteredChargers, distances, filters, searchCenter,
                   previousPlacesSignature, loadFilters, initPc, published>>
    /\ UNCHANGED <<parseVars, failures>>

handleSearchAgain(center) ==
    /\ Quiet
    /\ searchCenter' = Some(center)
    /\ loads' = StartLoad(loads, center, loadFilters)
    /\ isLoading' = TRUE
    /\ error' = None
    /\ pending' = {"reload"}
    /\ UNCHANGED <<places, chargers, filteredChargers, distances, filters,
                   previousPlacesSignature, loadFilters, initPc, published>>
    /\ UNCHANGED <<parseVars, failures>>

\* setFilters(newFilters) and the render that follows: loadDataFromLocation is
\* re-created, closing over the new filters, only when walkingTime or
\* searchRadius changed; that re-runs the initial-load and the reload effects.
SetFilters(newFilters) ==
    LET reloads == \/ newFilters.walkingTime # filters.walkingTime
                   \/ newFilters.searchRadius # filters.searchRadius
    IN  /\ Quiet
        /\ filters' = newFilters
        /\ loadFilters' = IF reloads THEN closureOf(newFilters) ELSE loadFilters
        /\ pending' = IF reloads THEN {"init", "reload", "filters"} ELSE {"filters"}
        /\ UNCHANGED <<places, chargers, filteredChargers, distances, isLoading, error,
                       searchCenter, previousPlacesSignature, loads, initPc, published>>
        /\ UNCHANGED <<parseVars, failures>>

handleFilterChange == \E newFilters \in FiltersAfterEdit(filters) : SetFilters(newFilters)

\* Clear All Filters publishes a copy of the default criteria.
clearFilters == SetFilters(defaultFilters)

\* searchPlaces resolved.
SearchResolved(k, found) ==
    LET placeResults ==
            IF k \in DOMAIN loads /\ found
            THEN searchPlaces(SearchResponse(loads[k].centerLocation)) ELSE <<>>
    IN  /\ pending = {}
        /\ k \in DOMAIN loads
        /\ loads[k].pc = "search"
        /\ found \/ failures < MaxFailures
        /\ failures' = IF found THEN failures ELSE failures + 1
        /\ IF Len(placeResults) = 0
           THEN /\ error' = Some(ErrNoLocations)
                /\ isLoading' = FALSE
                /\ loads' = EndLoad(loads, k)
           ELSE /\ loads' = [loads EXCEPT ![k].pc = "matrix",
                                          ![k].placeResults = placeResults]
                /\ UNCHANGED <<error, isLoading>>
        /\ UNCHANGED <<places, chargers, filteredChargers, distances, filters,
                       searchCenter, previousPlacesSignature, loadFilters, initPc,
                       pending, published>>
        /\ UNCHANGED parseVars

\* getMultipleDistances resolved: setDistances, then setPlaces(sortedPlaces).
MatrixResolved(k) ==
    LET l == IF k \in DOMAIN loads THEN loads[k] ELSE StartLoad(<<>>, 0, loadFilters)[1]
        distanceResults == getMultipleDistances(l.centerLocation, l.placeResults,
                                 MatrixFailures(l.centerLocation))
        distanceMap == distanceMapOf(l.placeResults, distanceResults)
        placesWithinRadius == placesWithinRadiusOf(l.placeResults, distanceMap, l.filters)
        sortedPlaces == sortByDistance(placesWithinRadius, distanceMap)
    IN  /\ pending = {}
        /\ k \in DOMAIN loads
        /\ l.pc = "matrix"
        /\ distances' = distanceMap
        /\ IF Len(placesWithinRadius) = 0
           THEN /\ error' = Some(ErrNoneWithinRadius)
                /\ isLoading' = FALSE
                /\ loads' = EndLoad(loads, k)
                /\ UNCHANGED places
           ELSE /\ places' = sortedPlaces
                /\ loads' = [loads EXCEPT ![k].pc = "fetch",
                                          ![k].sortedPlaces = sortedPlaces]
                /\ UNCHANGED <<error, isLoading>>
        /\ pending' = {"filters"}
        /\ UNCHANGED <<chargers, filteredChargers, filters, searchCenter,
                       previousPlacesSignature, loadFilters, initPc, published>>
        /\ UNCHANGED <<parseVars, failures>>

\* getChargersForLocations resolved: correlation, setChargers,
\* setFilteredChargers, setPlaces(updatedPlaces); finally setIsLoading(false).
ChargersResolved(k) ==
    LET l == IF k \in DOMAIN loads THEN loads[k] ELSE StartLoad(<<>>, 0, loadFilters)[1]
        allChargers == allChargersOf(l.placeResults, l.filters)
    IN  /\ pending = {}
        /\ k \in DOMAIN loads
        /\ l.pc = "fetch"
        /\ chargers' = allChargers
        /\ filteredChargers' = allChargers
        /\ places' = updatedPlacesOf(l.sortedPlaces, allChargers)
        /\ isLoading' = FALSE
        /\ loads' = EndLoad(loads, k)
        /\ pending' = {"filters"}
        /\ published' = Some([walkingTime |-> walkingTimeMinutesOf(l.filters),
                              cost |-> l.filters.cost,
                              speed |-> l.filters.speed])
        /\ UNCHANGED <<distances, filters, error, searchCenter,
                       previousPlacesSignature, loadFilters, initPc>>
        /\ UNCHANGED <<parseVars, failures>>

\* An awaited request rejected: catch sets the error, finally clears isLoading.
LoadRejected(k) ==
    /\ pending = {}
    /\ k \in DOMAIN loads
    /\ failures < MaxFailures
    /\ failures' = failures + 1
    /\ error' = Some(ErrRequest)
    /\ isLoading' = FALSE
    /\ loads' = EndLoad(loads, k)
    /\ UNCHANGED <<places, chargers, filteredChargers, distances, filters, searchCenter,
                   previousPlacesSignature, loadFilters, initPc, pending, published>>
    /\ UNCHANGED parseVars

\* The apply-filters effect, run after a render in which filters, chargers,
\* places or distances changed.
ApplyFiltersEffect ==
    /\ pending = {"filters"}
    /\ IF Len(places) = 0 \/ Len(chargers) = 0
       THEN /\ filteredChargers' = IF Len(chargers) = 0 THEN <<>> ELSE filteredChargers
            /\ pending' = {}
            /\ UNCHANGED <<places, previousPlacesSignature>>
       ELSE LET pass == filterPass(chargers, places, filters, distances)
            IN  /\ filteredChargers' = pass.filtered
                /\ IF previousPlacesSignature # pass.newSignature
                   THEN /\ previousPlacesSignature' = pass.newSignature
                        /\ places' = pass.sortedPlaces
                        /\ pending' = {"filters"}
                   ELSE /\ pending' = {}
                        /\ UNCHANGED <<places, previousPlacesSignature>>
    /\ UNCHANGED <<chargers, distances, filters, isLoading, error, searchCenter,
                   loadFilters, loads, initPc, published>>
    /\ UNCHANGED <<parseVars, failures>>

Init ==
    /\ raw = ChargerCatalogue[1]
    /\ parsed = None
    /\ raised = FALSE
    /\ panel = [localFilters |-> defaultFilters, appliedFilters |-> defaultFilters,
                sync |-> FALSE]
    /\ landing = [query |-> <<>>, locationType |-> "my-location", customLocation |-> <<>>,
                  searchData |-> None, pc |-> "form", requested |-> {},
                  startLocation |-> None]
    /\ walk = [minutes |-> None, distanceKm |-> None, label |-> None]
    /\ ViewInit

Next ==
    \/ InitialLoadEffect
    \/ \E startLocation \in StartLocations : LocationResolved(startLocation)
    \/ ReloadEffect
    \/ \E center \in MapCenters : handleSearchAgain(center)
    \/ handleFilterChange
    \/ clearFilters
    \/ \E k \in 1..MaxLoads, found \in BOOLEAN : SearchResolved(k, found)
    \/ \E k \in 1..MaxLoads : MatrixResolved(k)
    \/ \E k \in 1..MaxLoads : ChargersResolved(k)
    \/ \E k \in 1..MaxLoads : LoadRejected(k)
    \/ ApplyFiltersEffect

Spec == Init /\ [][Next]_vars

-----------------------------------------------------------------------------
(* SpecWatch: Spec with the watchdog timers.  An upstream promise may never *)
(* settle, so no step of a load is required to happen; a timer that stays   *)
(* set fires.                                                               *)

\* the watchdog callback without setIsLoading(false)
WatchdogFiredErrorOnly(k) ==
    /\ k \in DOMAIN loads
    /\ loads[k].watchdog
    /\ error' = Some("Taking too long to load results")
    /\ loads' = [loads EXCEPT ![k].watchdog = FALSE]
    /\ UNCHANGED <<places, chargers, filteredChargers, distances, filters, isLoading,
                   searchCenter, previousPlacesSignature, loadFilters, initPc, pending,
                   published>>
    /\ UNCHANGED <<parseVars, failures>>

\* The watchdog of the call at position k fired: setError(...),
\* setIsLoading(false).  The call itself goes on.  The timer may fire before
\* the effects of the last render have run; it touches nothing they read.
WatchdogFired(k) ==
    /\ k \in DOMAIN loads
    /\ loads[k].watchdog
    /\ error' = Some("Taking too long to load results")
    /\ isLoading' = FALSE
    /\ loads' = [loads EXCEPT ![k].watchdog = FALSE]
    /\ UNCHANGED <<places, chargers, filteredChargers, distances, filters, searchCenter,
                   previousPlacesSignature, loadFilters, initPc, pending, published>>
    /\ UNCHANGED <<parseVars, failures>>

NextWatch ==
    \/ Next
    \/ \E k \in 1..MaxLoads : WatchdogFired(k)

SpecWatch ==
    /\ Init
    /\ [][NextWatch]_vars
    /\ WF_vars(\E k \in 1..MaxLoads : WatchdogFired(k))

-----------------------------------------------------------------------------
(* SpecParse: parseChargerData applied to every record of RawChargers.     *)

InitParse ==
    /\ raw \in RawChargers
    /\ parsed = None
    /\ raised = FALSE
    /\ panel = [localFilters |-> defaultFilters, appliedFilters |-> defaultFilters,
                sync |-> FALSE]
    /\ landing = [query |-> <<>>, locationType |-> "my-location", customLocation |-> <<>>,
                  searchData |-> None, pc |-> "form", requested |-> {},
                  startLocation |-> None]
    /\ walk = [minutes |-> None, distanceKm |-> None, label |-> None]
    /\ ViewInit

ParseCharger ==
    /\ parsed = None
    /\ ~raised
    /\ IF parseRaises(raw)
       THEN raised' = TRUE /\ parsed' = None
       ELSE raised' = FALSE /\ parsed' = Some(parseChargerData(raw))
    /\ UNCHANGED <<raw, walk, panel, landing>>
    /\ UNCHANGED viewVars

NextParse == ParseCharger

SpecParse == InitParse /\ [][NextParse]_vars

-----------------------------------------------------------------------------
(* SpecWalk: the walking-time conversions of utils/distance, applied to    *)
(* every whole number of minutes the walking-time control offers and to    *)
(* every whole number of metres up to MaxWalkMetres.                       *)

MaxWalkMinutes == 30

MaxWalkMetres == 15000

InitWalk ==
    /\ raw = ChargerCatalogue[1]
    /\ parsed = None
    /\ raised = FALSE
    /\ panel = [localFilters |-> defaultFilters, appliedFilters |-> defaultFilters,
                sync |-> FALSE]
    /\ landing = [query |-> <<>>, locationType |-> "my-location", customLocation |-> <<>>,
                  searchData |-> None, pc |-> "form", requested |-> {},
                  startLocation |-> None]
    /\ \/ \E minutes \in 1..MaxWalkMinutes :
              walk = [minutes |-> Some(minutes), distanceKm |-> None, label |-> None]
       \/ \E metres \in 0..MaxWalkMetres :
              walk = [minutes |-> None, distanceKm |-> Some(metres * MetreUnits),
                      label |-> None]
    /\ ViewInit

\* walkingTimeToDistanceKm(minutes)
ConvertWalkingTime ==
    /\ walk.minutes # None
    /\ walk.distanceKm = None
    /\ walk' = [walk EXCEPT !.distanceKm = Some(walkingTimeToDistanceKm(walk.minutes[1]))]
    /\ UNCHANGED <<raw, parsed, raised, panel, landing>>
    /\ UNCHANGED viewVars

\* calculateWalkingTime(distanceKm)
FormatWalkingTime ==
    /\ walk.distanceKm # None
    /\ walk.label = None
    /\ walk' = [walk EXCEPT !.label = Some(calculateWalkingTime(walk.distanceKm[1]))]
    /\ UNCHANGED <<raw, parsed, raised, panel, landing>>
    /\ UNCHANGED viewVars

NextWalk == ConvertWalkingTime \/ FormatWalkingTime

SpecWalk == InitWalk /\ [][NextWalk]_vars


-----------------------------------------------------------------------------
(* SpecFetch: the charger-fetch stage of one load, one request per place.  *)
(* getChargersForLocations starts a getNearbyChargers request for every    *)
(* place and awaits Promise.all of them; the requests settle in any order. *)
(* The load in flight carries slots (the values Promise.all has collected) *)
(* and order (the indices of the requests in the order they resolved).     *)

\* a collection of the values in the order in which the requests resolved
promiseAllArrival(index, order) == Len(order) + 1

\* Promise.all stores a value at the index of its promise in the input array;
\* order lists the requests that resolved before.
promiseAllIndex(index, order) == index

\* The state of MapView when a load around center, started with the criteria
\* f, awaits getChargersForLocations: places and distances are published.
InitFetch ==
    \E center \in StartLocations \cup MapCenters, walkingTime \in WalkingTimes,
       cost \in CostValues, speed \in SpeedValues :
        LET f == [defaultFilters EXCEPT !.walkingTime = walkingTime,
                                        !.cost = cost, !.speed = speed]
            placeResults == searchPlaces(SearchResponse(center))
            distanceMap ==
                distanceMapOf(placeResults,
                              getMultipleDistances(center, placeResults,
                                                   MatrixFailures(center)))
            sortedPlaces ==
                sortByDistance(placesWithinRadiusOf(placeResults, distanceMap, closureOf(f)),
                               distanceMap)
        IN  /\ raw = ChargerCatalogue[1]
            /\ parsed = None
            /\ raised = FALSE
            /\ panel = [localFilters |-> defaultFilters, appliedFilters |-> defaultFilters,
                        sync |-> FALSE]
            /\ landing = [query |-> <<>>, locationType |-> "my-location", customLocation |-> <<>>,
                          searchData |-> None, pc |-> "form", requested |-> {},
                          startLocation |-> None]
            /\ walk = [minutes |-> None, distanceKm |-> None, label |-> None]
            /\ places = sortedPlaces
            /\ chargers = <<>>
            /\ filteredChargers = <<>>
            /\ distances = distanceMap
            /\ filters = f
            /\ isLoading = TRUE
            /\ error = None
            /\ searchCenter = Some(center)
            /\ previousPlacesSignature = <<>>
            /\ loadFilters = closureOf(f)
            /\ loads = <<[pc |-> "fetch", centerLocation |-> center,
                          filters |-> closureOf(f), placeResults |-> placeResults,
                          sortedPlaces |-> sortedPlaces, watchdog |-> TRUE,
                          slots |-> [i \in DOMAIN placeResults |-> None],
                          order |-> <<>>]>>
            /\ initPc = "idle"
            /\ pending = {}
            /\ published = None
            /\ failures = 0

\* The getNearbyChargers request for the place at index resolved.  When it is
\* the last one, Promise.all resolves and loadDataFromLocation goes on:
\* correlation over chargerResults, setChargers, setFilteredChargers,
\* setPlaces(updatedPlaces); finally setIsLoading(false).
FetchResolved(index) ==
    /\ pending = {}
    /\ loads # <<>>
    /\ LET l == loads[1]
           walkingDistanceKm == walkingTimeToDistanceKm(walkingTimeMinutesOf(l.filters))
           value == getNearbyChargers(l.placeResults[index].geometry.location,
                                      walkingDistanceKm, apiFiltersOf(l.filters))
           slots == [l.slots EXCEPT ![promiseAllIndex(index, l.order)] = Some(value)]
           order == Append(l.order, index)
           chargerResults == [i \in DOMAIN slots |-> slots[i][1]]
           allChargers ==
               Flatten([i \in DOMAIN chargerResults |->
                   parsedChargersOf(l.placeResults, i, chargerResults[i], walkingDistanceKm)])
       IN  /\ l.pc = "fetch"
           /\ index \in DOMAIN l.placeResults
           /\ \A n \in DOMAIN l.order : l.order[n] # index
           /\ IF Len(order) < Len(l.placeResults)
              THEN /\ loads' = <<[l EXCEPT !.slots = slots, !.order = order]>>
                   /\ UNCHANGED <<chargers, filteredChargers, places, isLoading,
                                  pending, published>>
              ELSE /\ chargers' = allChargers
                   /\ filteredChargers' = allChargers
                   /\ places' = updatedPlacesOf(l.sortedPlaces, allChargers)
                   /\ isLoading' = FALSE
                   /\ loads' = EndLoad(loads, 1)
                   /\ pending' = {"filters"}
                   /\ published' = Some([walkingTime |-> walkingTimeMinutesOf(l.filters),
                                         cost |-> l.filters.cost,
                                         speed |-> l.filters.speed,
                                         order |-> order])
    /\ UNCHANGED <<distances, filters, error, searchCenter,
                   previousPlacesSignature, loadFilters, initPc>>
    /\ UNCHANGED <<parseVars, failures>>

\* The getNearbyChargers request for the place at index failed: its catch
\* throws again, Promise.all rejects, the catch of getChargersForLocations
\* throws again and loadDataFromLocation ends in its catch.
FetchRejected(index) ==
    /\ loads # <<>>
    /\ loads[1].pc = "fetch"
    /\ index \in DOMAIN loads[1].placeResults
    /\ \A n \in DOMAIN loads[1].order : loads[1].order[n] # index
    /\ LoadRejected(1)

NextFetch ==
    \/ \E center \in StartLocations \cup MapCenters :
           \E index \in DOMAIN SearchResponse(center) : FetchResolved(index)
    \/ \E center \in StartLocations \cup MapCenters :
           \E index \in DOMAIN SearchResponse(center) : FetchRejected(index)
    \/ ApplyFiltersEffect

SpecFetch == InitFetch /\ [][NextFetch]_vars

-----------------------------------------------------------------------------
(* SpecPanel: the FilterPanel component over the filters MapView holds.    *)
(* panel.sync tells that the filters prop changed in the last render, so   *)
(* that the effect copying it into the panel is due; the effect also runs  *)
(* after the first render.                                                 *)

InitPanel ==
    /\ raw = ChargerCatalogue[1]
    /\ parsed = None
    /\ raised = FALSE
    /\ walk = [minutes |-> None, distanceKm |-> None, label |-> None]
    /\ panel = [localFilters |-> defaultFilters, appliedFilters |-> defaultFilters,
                sync |-> TRUE]
    /\ landing = [query |-> <<>>, locationType |-> "my-location", customLocation |-> <<>>,
                  searchData |-> None, pc |-> "form", requested |-> {},
                  startLocation |-> None]
    /\ ViewInit

\* useEffect on [filters]: setLocalFilters(filters), setAppliedFilters(filters)
FilterPanel_syncEffect ==
    /\ panel.sync
    /\ panel' = [localFilters |-> filters, appliedFilters |-> filters, sync |-> FALSE]
    /\ UNCHANGED <<raw, parsed, raised, walk, landing>>
    /\ UNCHANGED viewVars

\* A control of the panel changed: handleFilterChange(key, value), or
\* toggleConnector(name), which calls handleFilterChange('connectors', ...)
\* with the selection after adding or removing the name.
FilterPanel_handleFilterChange ==
    LET local == panel.localFilters
        notName(name) == [c \in {T_CCS, T_Type2} |-> c # name]
        toggleConnector(name) ==
            IF \E i \in DOMAIN local.connectors : local.connectors[i] = name
            THEN SelectSeq(local.connectors, LAMBDA c : notName(name)[c])
            ELSE Append(local.connectors, name)
        newFilters ==
            {[local EXCEPT !.operational = ~local.operational]}
            \cup {[local EXCEPT !.access = v] : v \in AccessValues \ {local.access}}
            \cup {[local EXCEPT !.cost = v] : v \in CostValues \ {local.cost}}
            \cup {[local EXCEPT !.speed = v] : v \in SpeedValues \ {local.speed}}
            \cup {[local EXCEPT !.connectors = toggleConnector(name)] :
                      name \in {T_CCS, T_Type2}}
            \cup {[local EXCEPT !.walkingTime = v] : v \in WalkingTimes \ {local.walkingTime}}
            \cup {[local EXCEPT !.searchRadius = v] : v \in SearchRadii \ {local.searchRadius}}
    IN  /\ ~panel.sync
        /\ \E f \in newFilters : panel' = [panel EXCEPT !.localFilters = f]
        /\ UNCHANGED <<raw, parsed, raised, walk, landing>>
        /\ UNCHANGED viewVars

\* applyFilters without setAppliedFilters
applyFiltersPublishOnly ==
    /\ ~panel.sync
    /\ panel' = [panel EXCEPT !.sync = TRUE]
    /\ filters' = panel.localFilters
    /\ UNCHANGED <<raw, parsed, raised, walk, landing>>
    /\ UNCHANGED <<places, chargers, filteredChargers, distances, isLoading, error,
                   searchCenter, previousPlacesSignature, loadFilters, loads, initPc,
                   pending, published, failures>>

\* Apply: setAppliedFilters(localFilters), onFilterChange(localFilters); the
\* handler MapView passes as onFilterChange calls setFilters(newFilters).
applyFilters ==
    /\ ~panel.sync
    /\ panel' = [panel EXCEPT !.appliedFilters = panel.localFilters, !.sync = TRUE]
    /\ filters' = panel.localFilters
    /\ UNCHANGED <<raw, parsed, raised, walk, landing>>
    /\ UNCHANGED <<places, chargers, filteredChargers, distances, isLoading, error,
                   searchCenter, previousPlacesSignature, loadFilters, loads, initPc,
                   pending, published, failures>>

\* Clear All Filters: both copies and the published criteria become a copy of
\* defaultFilters.
FilterPanel_clearFilters ==
    /\ ~panel.sync
    /\ panel' = [localFilters |-> defaultFilters, appliedFilters |-> defaultFilters,
                 sync |-> TRUE]
    /\ filters' = defaultFilters
    /\ UNCHANGED <<raw, parsed, raised, walk, landing>>
    /\ UNCHANGED <<places, chargers, filteredChargers, distances, isLoading, error,
                   searchCenter, previousPlacesSignature, loadFilters, loads, initPc,
                   pending, published, failures>>

NextPanel ==
    \/ FilterPanel_syncEffect
    \/ FilterPanel_handleFilterChange
    \/ applyFilters
    \/ FilterPanel_clearFilters

SpecPanel == InitPanel /\ [][NextPanel]_vars

-----------------------------------------------------------------------------
(* SpecLanding: the landing-page form, its submission, and the location    *)
(* lookup the initial-load effect of MapView runs for the submitted        *)
(* searchData.  landing.requested holds the lookups MapView has asked for  *)
(* ("geolocation", "geocode"); landing.startLocation tells where the start *)
(* location came from ("geolocated", "geocoded", "default").               *)

\* String.prototype.trim
RECURSIVE trim(_)
trim(s) ==
    IF s = <<>> THEN <<>>
    ELSE IF Head(s) = " " THEN trim(Tail(s))
    ELSE IF s[Len(s)] = " " THEN trim(SubSeq(s, 1, Len(s) - 1))
    ELSE s

\* The form as the user may have left it: any query text, either location
\* type, any text in the custom-location input.
InitLanding ==
    LET queries == {<<>>, <<" ">>, <<"e", "v">>, <<" ", "e", "v">>, <<"e", "v", " ">>,
                    <<"e", " ", "v">>}
        customLocations == {<<>>, <<" ">>, <<" ", " ">>, <<"R", "o", "m", "e">>,
                            <<" ", "R", "o", "m", "e">>, <<"R", "o", "m", "e", " ">>}
    IN  /\ raw = ChargerCatalogue[1]
        /\ parsed = None
        /\ raised = FALSE
        /\ walk = [minutes |-> None, distanceKm |-> None, label |-> None]
        /\ panel = [localFilters |-> defaultFilters, appliedFilters |-> defaultFilters,
                    sync |-> FALSE]
        /\ \E query \in queries, locationType \in {"my-location", "custom"},
              customLocation \in customLocations :
               landing = [query |-> query, locationType |-> locationType,
                          customLocation |-> customLocation, searchData |-> None,
                          pc |-> "form", requested |-> {}, startLocation |-> None]
        /\ ViewInit

\* LandingPageContent.handleSubmit: onSearch(searchData).  The custom-location
\* input is controlled, so the value read through the ref is customLocation.
handleSubmit ==
    LET inputValue == landing.customLocation
        locationValue ==
            IF landing.locationType = "custom"
            THEN Some(IF trim(landing.customLocation) # <<>> THEN trim(landing.customLocation)
                      ELSE IF trim(inputValue) # <<>> THEN trim(inputValue)
                      ELSE <<>>)
            ELSE None
        searchData ==
            [query |-> trim(landing.query),
             locationType |-> landing.locationType,
             customLocation |-> IF landing.locationType = "custom"
                                THEN Some(Coalesce(locationValue, <<>>)) ELSE None]
    IN  /\ landing.pc = "form"
        /\ trim(landing.query) # <<>>
        /\ landing' = [landing EXCEPT !.searchData = Some(searchData), !.pc = "mounted"]
        /\ UNCHANGED <<raw, parsed, raised, walk, panel>>
        /\ UNCHANGED viewVars

\* initializeLocation up to its await: geocodeAddress for a custom location,
\* getCurrentLocation otherwise.
initializeLocation ==
    LET searchData == landing.searchData[1]
        customLoc == searchData.customLocation
        hasCustomLocation ==
            /\ searchData.locationType = "custom"
            /\ customLoc # None
            /\ Len(trim(customLoc[1])) > 0
    IN  /\ landing.pc = "mounted"
        /\ landing.searchData # None
        /\ searchData.query # <<>>
        /\ landing' = [landing EXCEPT
                           !.requested = IF hasCustomLocation THEN {"geocode"}
                                         ELSE {"geolocation"},
                           !.pc = "locating"]
        /\ UNCHANGED <<raw, parsed, raised, walk, panel>>
        /\ UNCHANGED viewVars

\* initializeLocation after the await: the lookup resolved, or it rejected and
\* startLocation is defaultCenter.
LocationLookupSettled(resolved) ==
    /\ landing.pc = "locating"
    /\ landing' = [landing EXCEPT
                       !.startLocation =
                           Some(IF ~resolved THEN "default"
                                ELSE IF "geocode" \in landing.requested THEN "geocoded"
                                ELSE "geolocated"),
                       !.pc = "located"]
    /\ UNCHANGED <<raw, parsed, raised, walk, panel>>
    /\ UNCHANGED viewVars

NextLanding ==
    \/ handleSubmit
    \/ initializeLocation
    \/ \E resolved \in BOOLEAN : LocationLookupSettled(resolved)

SpecLanding == InitLanding /\ [][NextLanding]_vars

-----------------------------------------------------------------------------
(* Properties of parseChargerData (SpecParse).                             *)

\* The text s contains the word w, whatever the case of the letters of s:
\* w is given as the sequence of its letters' two cases.
ContainsWord(s, w) ==
    \E i \in 0..(Len(s) - Len(w)) : \A j \in DOMAIN w : s[i + j] \in w[j]

W_free == <<{"f","F"}, {"r","R"}, {"e","E"}, {"e","E"}>>

W_unavailable == <<{"u","U"}, {"n","N"}, {"a","A"}, {"v","V"}, {"a","A"}, {"i","I"},
                   {"l","L"}, {"a","A"}, {"b","B"}, {"l","L"}, {"e","E"}>>

W_planned == <<{"p","P"}, {"l","L"}, {"a","A"}, {"n","N"}, {"n","N"}, {"e","E"}, {"d","D"}>>

W_removed == <<{"r","R"}, {"e","E"}, {"m","M"}, {"o","O"}, {"v","V"}, {"e","E"}, {"d","D"}>>

W_decommissioned == <<{"d","D"}, {"e","E"}, {"c","C"}, {"o","O"}, {"m","M"}, {"m","M"},
                      {"i","I"}, {"s","S"}, {"s","S"}, {"i","I"}, {"o","O"}, {"n","N"},
                      {"e","E"}, {"d","D"}>>

\* the usage-cost text of the raw record, '' when missing or null
RawCostText == IF raw.UsageCost = None THEN <<>> ELSE raw.UsageCost[1]

\* the pay-at-location flag of the raw record is true
RawPayFlag == raw.UsageType # None /\ raw.UsageType[1].IsPayAtLocation = Some(TRUE)

\* C7: isFree is true exactly when the usage cost is a non-empty text that
\* contains 'free' in any case and the pay-at-location flag is not true; a
\* record whose usage cost is missing or empty is never free.
C7_IsFreeRule ==
    parsed # None =>
        /\ parsed[1].isFree = (/\ RawCostText # <<>>
                               /\ ContainsWord(RawCostText, W_free)
                               /\ ~RawPayFlag)
        /\ (RawCostText = <<>> => parsed[1].isFree = FALSE)

\* a record with no usage cost and the flag not true was parsed: not free
C7_Witness ==
    /\ parsed # None
    /\ raw.UsageCost = None
    /\ raw.UsageType # None
    /\ raw.UsageType[1].IsPayAtLocation = Some(FALSE)
    /\ parsed[1].isFree = FALSE

\* C8: the cost label is the usage-cost text when it is non-empty, otherwise
\* 'Free' when isFree, otherwise 'Pay At Location' when the flag is true,
\* otherwise 'Paid'; an explicit price comes back unchanged, with isFree false.
C8_CostLabelRule ==
    parsed # None =>
        /\ parsed[1].cost =
              (IF RawCostText # <<>> THEN RawCostText
               ELSE IF parsed[1].isFree THEN <<"F","r","e","e">>
               ELSE IF RawPayFlag
                    THEN <<"P","a","y"," ","A","t"," ","L","o","c","a","t","i","o","n">>
               ELSE <<"P","a","i","d">>)
        /\ (RawCostText = <<>> /\ RawPayFlag =>
               parsed[1].cost =
                   <<"P","a","y"," ","A","t"," ","L","o","c","a","t","i","o","n">>)
        /\ (RawCostText = T_Price =>
               parsed[1].cost = T_Price /\ parsed[1].isFree = FALSE)

\* a record with an explicit price and the flag true was parsed
C8_Witness ==
    /\ parsed # None
    /\ raw.UsageCost = Some(T_Price)
    /\ RawPayFlag
    /\ parsed[1].cost = T_Price

\* the status title of the raw record, '' when missing
RawStatusTitle ==
    IF raw.StatusType = None \/ raw.StatusType[1].Title = None THEN <<>>
    ELSE raw.StatusType[1].Title[1]

\* the station's operational flag of the raw record: None when not reported
RawStatusFlag == IF raw.StatusType = None THEN None ELSE raw.StatusType[1].IsOperational

RawTitleNonOperational ==
    \/ ContainsWord(RawStatusTitle, W_unavailable)
    \/ ContainsWord(RawStatusTitle, W_planned)
    \/ ContainsWord(RawStatusTitle, W_removed)
    \/ ContainsWord(RawStatusTitle, W_decommissioned)

RawConnectorOperational ==
    /\ raw.Connections # None
    /\ \E i \in DOMAIN raw.Connections[1] :
          /\ raw.Connections[1][i].StatusType # None
          /\ raw.Connections[1][i].StatusType[1].IsOperational = Some(TRUE)

\* C9: the operational status is false when the status title names a
\* non-operational state or the station's flag is false, whatever else is
\* reported; otherwise true when the flag is true; otherwise true when a
\* connector reports itself operational; otherwise null, and null only then.
C9_OperationalPriority ==
    parsed # None =>
        LET isOperational == parsed[1].status.isOperational
        IN  /\ (RawTitleNonOperational \/ RawStatusFlag = Some(FALSE)
                   => isOperational = Some(FALSE))
            /\ (~RawTitleNonOperational /\ RawStatusFlag = Some(TRUE)
                   => isOperational = Some(TRUE))
            /\ (~RawTitleNonOperational /\ RawStatusFlag = None /\ RawConnectorOperational
                   => isOperational = Some(TRUE))
            /\ (isOperational = None <=>
                   /\ ~RawTitleNonOperational
                   /\ RawStatusFlag = None
                   /\ ~RawConnectorOperational)

\* a record titled as removed, flagged operational and with an operational
\* connector was parsed: the title wins
C9_Witness ==
    /\ parsed # None
    /\ raw.StatusType = Some([Title |-> Some(T_Removed), IsOperational |-> Some(TRUE)])
    /\ RawConnectorOperational
    /\ parsed[1].status.isOperational = Some(FALSE)

\* the positive connector powers of the raw record, in watts
RawPowers ==
    IF raw.Connections = None THEN {}
    ELSE {raw.Connections[1][i].PowerKW[1] :
             i \in {j \in DOMAIN raw.Connections[1] :
                       /\ raw.Connections[1][j].PowerKW # None
                       /\ raw.Connections[1][j].PowerKW[1] > 0}}

\* the largest connector power, 0 when no connector reports a positive one
RawMaxPower == IF RawPowers = {} THEN 0 ELSE CHOOSE p \in RawPowers : \A q \in RawPowers : q <= p

\* C10: powerTier is level1 up to 3.7 kW, level2 above 3.7 kW and up to 22 kW,
\* dc_fast above 22 kW; the cut points belong to the lower tier, absent power
\* is level1, and 'unknown' is never produced.
C10_PowerTierRule ==
    parsed # None =>
        /\ parsed[1].maxPower = RawMaxPower
        /\ (RawMaxPower <= 3700 => parsed[1].powerTier = "level1")
        /\ (3700 < RawMaxPower /\ RawMaxPower <= 22000 => parsed[1].powerTier = "level2")
        /\ (RawMaxPower > 22000 => parsed[1].powerTier = "dc_fast")
        /\ parsed[1].powerTier # "unknown"

\* a record whose largest connector power is exactly 22 kW was parsed
C10_Witness ==
    /\ parsed # None
    /\ RawMaxPower = 22000
    /\ parsed[1].powerTier = "level2"


W_parking == <<{"p","P"}, {"a","A"}, {"r","R"}, {"k","K"}, {"i","I"}, {"n","N"}, {"g","G"}>>

W_public == <<{"p","P"}, {"u","U"}, {"b","B"}, {"l","L"}, {"i","I"}, {"c","C"}>>

W_private == <<{"p","P"}, {"r","R"}, {"i","I"}, {"v","V"}, {"a","A"}, {"t","T"}, {"e","E"}>>

W_restricted == <<{"r","R"}, {"e","E"}, {"s","S"}, {"t","T"}, {"r","R"}, {"i","I"},
                  {"c","C"}, {"t","T"}, {"e","E"}, {"d","D"}>>

\* the usage-type title of the raw record, '' when missing
RawUsageTitle ==
    IF raw.UsageType = None \/ raw.UsageType[1].Title = None THEN <<>>
    ELSE raw.UsageType[1].Title[1]

\* the membership-required flag of the raw record is set
RawMembershipFlag ==
    raw.UsageType # None /\ raw.UsageType[1].IsMembershipRequired = Some(TRUE)

\* the access-key-required flag of the raw record is set
RawAccessKeyFlag ==
    raw.UsageType # None /\ raw.UsageType[1].IsAccessKeyRequired = Some(TRUE)

\* The rules of the access category in their documented order, each with the
\* category it gives; the last one always matches.
AccessRules ==
    <<[matches |-> RawMembershipFlag,                          category |-> "permit"],
      [matches |-> RawAccessKeyFlag,                           category |-> "restricted"],
      [matches |-> ContainsWord(RawUsageTitle, W_parking),     category |-> "parking"],
      [matches |-> ContainsWord(RawUsageTitle, W_public),      category |-> "public"],
      [matches |-> ContainsWord(RawUsageTitle, W_private),     category |-> "private"],
      [matches |-> ContainsWord(RawUsageTitle, W_restricted),  category |-> "restricted"],
      [matches |-> TRUE,                                       category |-> "unknown"]>>

\* C11: the access category is the category of the first rule that matches,
\* in the order membership flag, access-key flag, 'parking', 'public',
\* 'private', 'restricted', unknown: an earlier rule wins over every later one.
C11_AccessFirstMatch ==
    parsed # None =>
        \A i \in DOMAIN AccessRules :
            (AccessRules[i].matches /\ \A j \in 1..(i - 1) : ~AccessRules[j].matches)
                => parsed[1].access.category = AccessRules[i].category

\* a record whose title contains both 'public' and 'restricted' and whose
\* flags are not set was parsed: public
C11_Witness ==
    /\ parsed # None
    /\ ~RawMembershipFlag
    /\ ~RawAccessKeyFlag
    /\ ContainsWord(RawUsageTitle, W_public)
    /\ ContainsWord(RawUsageTitle, W_restricted)
    /\ parsed[1].access.category = "public"

\* the raw record leaves out every optional field
RawAllAbsent ==
    /\ raw.AddressInfo = None
    /\ raw.Connections = None
    /\ raw.UsageCost = None
    /\ raw.UsageType = None
    /\ raw.StatusType = None

\* C12: normalizing a raw record never raises, whichever optional fields are
\* absent or null, and the result carries a power tier, a boolean isFree, an
\* operational status that is true, false or null, and an access category of
\* the documented set.
C12_ParseTotal ==
    /\ ~raised
    /\ parsed # None =>
           /\ parsed[1].powerTier \in {"level1", "level2", "dc_fast", "unknown"}
           /\ parsed[1].isFree \in BOOLEAN
           /\ parsed[1].status.isOperational \in {<<TRUE>>, <<FALSE>>, <<>>}
           /\ parsed[1].access.category \in
                  {"public", "restricted", "permit", "parking", "private", "unknown"}

\* a record without any optional field was normalized to the fallback values
C12_Witness ==
    /\ parsed # None
    /\ RawAllAbsent
    /\ parsed[1].powerTier = "level1"
    /\ parsed[1].isFree = FALSE
    /\ parsed[1].status.isOperational = <<>>
    /\ parsed[1].access.category = "unknown"



\* the pre-filter of getNearbyChargers keeps the raw record under the cost and
\* speed criteria of f
PreFilterKeeps(f) ==
    LET api == apiFiltersOf(f)
    IN  /\ api.free # None =>
               (IF api.free[1] THEN preFilterIsFree(raw) ELSE ~preFilterIsFree(raw))
        /\ api.speed # None => preFilterSpeed(raw, api.speed[1])

\* C30: the fetch-time pre-filter agrees with the filter pipeline.  For every
\* cost and speed criterion, getNearbyChargers keeps a raw charger exactly
\* when the cost and speed predicates of the pipeline keep its normalized
\* form; in particular it never removes a charger the pipeline would show.
C30_PreFilterAgrees ==
    parsed # None =>
        \A cost \in {"all", "free", "paid"}, speed \in {"all", "level1", "level2", "dc_fast"} :
            LET f == [cost |-> cost, speed |-> speed]
            IN  PreFilterKeeps(f) <=> (passesCost(parsed[1], f) /\ passesSpeed(parsed[1], f))

-----------------------------------------------------------------------------
(* Properties of the walking-time conversions (SpecWalk).                  *)

\* the decimal numeral of a number below 1000
Numeral(n) ==
    LET d(k) == <<"0", "1", "2", "3", "4", "5", "6", "7", "8", "9">>[k + 1]
    IN  IF n < 10 THEN <<d(n)>>
        ELSE IF n < 100 THEN <<d(n \div 10), d(n % 10)>>
        ELSE <<d(n \div 100), d((n \div 10) % 10), d(n % 10)>>

L_min == <<" ", "m", "i", "n">>

L_hr == <<" ", "h", "r">>

L_below1 == <<"<", " ", "1", " ", "m", "i", "n">>

\* The label denotes the time of t whole minutes; '< 1 min', a time below one
\* minute, is within one minute of m exactly when 0 is, so it counts as 0.
Denotes(label, t) ==
    \/ t = 0 /\ label = L_below1
    \/ t >= 1 /\ t < 60 /\ label = Numeral(t) \o L_min
    \/ t >= 60 /\ t % 60 = 0 /\ label = Numeral(t \div 60) \o L_hr
    \/ t >= 60 /\ t % 60 # 0
          /\ label = Numeral(t \div 60) \o L_hr \o <<" ">> \o Numeral(t % 60) \o L_min

\* C17: for every whole number of minutes m from 1 to 30, the label that
\* calculateWalkingTime gives for walkingTimeToDistanceKm(m) denotes a time
\* within 1 minute of m.
C17_WalkRoundTrip ==
    (walk.minutes # None /\ walk.label # None) =>
        \E t \in 0..(MaxWalkMinutes + 1) :
            /\ t - walk.minutes[1] <= 1
            /\ walk.minutes[1] - t <= 1
            /\ Denotes(walk.label[1], t)

\* 30 minutes were converted to a distance and the distance was labelled
\* '30 min'
C17_Witness ==
    /\ walk.minutes = Some(MaxWalkMinutes)
    /\ walk.distanceKm # None
    /\ walk.label = Some(Numeral(MaxWalkMinutes) \o L_min)


\* The walking time of the labelled distance in units of 1/3100 minute,
\* rounded down: 3.1 mph is 3100 units of 1/60000 mile per minute.
WalkTimeUnits == distanceMilesOf(walk.distanceKm[1])

\* Math.floor and Math.round of the walking time in minutes
WalkFloor == WalkTimeUnits \div 3100

WalkRound == (WalkTimeUnits + 1550) \div 3100

\* C18: the label is '< 1 min' when the time is below one minute, the minutes
\* rounded to the nearest integer and ' min' when it is below 60 minutes,
\* otherwise 'H hr' when the remaining minutes round to 0 and 'H hr M min'
\* when they do not (H the whole hours, M the rounded remainder); the hour
\* form is 'H hr' for every H, and the minutes shown are always below 60.
C18_LabelFormat ==
    walk.label # None =>
        LET H == WalkFloor \div 60
            M == WalkRound - 60 * H
        IN  /\ walk.label[1] =
                  (IF WalkFloor < 1 THEN L_below1
                   ELSE IF WalkFloor < 60 THEN Numeral(WalkRound) \o L_min
                   ELSE IF M = 0 THEN Numeral(H) \o L_hr
                   ELSE Numeral(H) \o L_hr \o <<" ">> \o Numeral(M) \o L_min)
            /\ (WalkFloor >= 1 /\ WalkFloor < 60) => WalkRound < 60
            /\ WalkFloor >= 60 => M < 60

-----------------------------------------------------------------------------
(* Properties of MapView (Spec).                                           *)

\* A distance in metres is within the walking threshold of `minutes`:
\* d / 1000 km <= (minutes / 60) * 3.1 * 1.60934 km.
WithinMinutes(d, minutes) == d # None /\ d[1] * 60000 <= minutes * 31 * 160934

\* The charger passes every criterion of the current filters other than the
\* walking time.
MeetsCriteria(c) ==
    /\ (filters.operational => c.status.isOperational = Some(TRUE))
    /\ (filters.access # "all" => c.access.category = filters.access)
    /\ (filters.cost # "all" => c.isFree = (filters.cost = "free"))
    /\ (filters.speed # "all" => c.powerTier = filters.speed)
    /\ (filters.connectors # <<>> =>
           \E i \in DOMAIN c.connectors :
               \E k \in DOMAIN filters.connectors : c.connectors[i].type = filters.connectors[k])

\* The charger passes every active predicate, the walking time being judged
\* on its distance to the place that owns it.
PassesEveryPredicate(c) ==
    MeetsCriteria(c) /\ WithinMinutes(c.distanceFromPlace, filters.walkingTime)

\* C1: once the apply-filters effect has run, filteredChargers is exactly the
\* sub-list of chargers that pass every active predicate: none that fails one
\* is present, none that passes all is missing.
C1_FilteredExact ==
    pending = {} => filteredChargers = SelectSeq(chargers, PassesEveryPredicate)

\* No load is in flight, every effect has run, and no load failed since the
\* last one was started.
Settled == Quiet /\ error = None

\* the (charger id, place id) pairs of a list of chargers
Attachments(cs) == {<<cs[i].id, cs[i].placeId>> : i \in DOMAIN cs}

\* The chargers the provider knows that lie within the current walking
\* threshold of a listed place and satisfy the current criteria.
ExpectedAttachments ==
    {<<ChargerCatalogue[ij[1]].ID, places[ij[2]].place_id>> :
        ij \in {xy \in (DOMAIN ChargerCatalogue) \X (DOMAIN places) :
                   LET c == parseChargerData(ChargerCatalogue[xy[1]])
                   IN  /\ WithinMinutes(calculateDistance(places[xy[2]].geometry.location,
                                                          c.location),
                                        filters.walkingTime)
                       /\ MeetsCriteria(c)}}

\* C2: the filtered output depends on the current criteria and the upstream
\* data only, so relaxing a criterion brings back what it excluded: in a
\* settled state showing a search made with the current walking time, once
\* cost and speed are back to 'all',
\* filteredChargers holds every charger within the walking threshold of its
\* place that satisfies the criteria in force, whatever was applied before.
C2_RelaxingRestores ==
    (/\ Settled
     /\ published # None
     /\ published[1].walkingTime = filters.walkingTime
     /\ filters.cost = "all"
     /\ filters.speed = "all")
    => Attachments(filteredChargers) = ExpectedAttachments

\* the entries of filteredChargers attached to the place
Survivors(placeId) ==
    LET attached(c) == c.placeId = placeId IN SelectSeq(filteredChargers, attached)

\* C3: in every settled state each place's chargerCount is the number of
\* entries of filteredChargers attached to it.
C3_CountsMatch ==
    Settled => \A i \in DOMAIN places :
                 places[i].chargerCount = Some(Len(Survivors(places[i].place_id)))

\* a sorts before b for the featured position: operational first, then the
\* larger maximum power
Outranks(a, b) ==
    LET opA == a.status.isOperational = Some(TRUE)
        opB == b.status.isOperational = Some(TRUE)
    IN  \/ opA /\ ~opB
        \/ opA = opB /\ a.maxPower > b.maxPower

\* the survivor that sorts first, the earliest one among equals
FirstRanked(cs) ==
    cs[CHOOSE i \in DOMAIN cs :
          /\ \A j \in DOMAIN cs : ~Outranks(cs[j], cs[i])
          /\ \A j \in 1..(i - 1) : Outranks(cs[i], cs[j])]

\* C4: in every settled state each place's featuredCharger is the surviving
\* charger attached to it that sorts first (operational, then maximum power,
\* then original order), and a place without survivors has none.
C4_FeaturedMatch ==
    Settled => \A i \in DOMAIN places :
                 LET cs == Survivors(places[i].place_id)
                 IN  places[i].featuredCharger =
                         (IF Len(cs) = 0 THEN None ELSE Some(FirstRanked(cs)))

\* the distance-from-origin value of a place, None when it has none
OriginDistance(dm, placeId) ==
    IF placeId \in DOMAIN dm THEN dm[placeId].distanceValue ELSE None

\* ps lists the places of qs, each once, ascending by distance value; places
\* without a value come last; equal values keep the order they have in qs.
ListedAscending(ps, qs, dm) ==
    /\ Len(ps) = Len(qs)
    /\ \A i \in DOMAIN qs :
          \E k \in DOMAIN ps : /\ ps[k].place_id = qs[i].place_id
                               /\ ps[k].geometry = qs[i].geometry
    /\ \A i, j \in DOMAIN ps :
          i < j =>
             LET di == OriginDistance(dm, ps[i].place_id)
                 dj == OriginDistance(dm, ps[j].place_id)
                 before(x, y) ==
                     \E a, b \in DOMAIN qs : /\ a < b
                                             /\ qs[a].place_id = x
                                             /\ qs[b].place_id = y
             IN  \/ di # None /\ dj = None
                 \/ di # None /\ dj # None /\ di[1] < dj[1]
                 \/ /\ (di = dj \/ (di # None /\ dj # None /\ di[1] = dj[1]))
                    /\ before(ps[i].place_id, ps[j].place_id)

\* C5: the places list a filter pass produces holds exactly the places it
\* was given, ascending by distance from the origin; a place without a
\* distance comes last, equal distances keep their order, and a place at
\* distance 0 comes first.
C5_PlacesAscending ==
    (pending = {"filters"} /\ Len(places) > 0 /\ Len(chargers) > 0)
    => ListedAscending(filterPass(chargers, places, filters, distances).sortedPlaces,
                       places, distances)

\* every place record the place search can return
ApiPlaces ==
    UNION {{SearchResponse(c)[i] : i \in DOMAIN SearchResponse(c)} :
              c \in StartLocations \cup MapCenters}

\* C6: after a load completed, every charger in chargers carries the id of a
\* place of the search and its distance to that place, and the distance is
\* within the threshold of the walking time the load used; a fetched charger
\* farther than that from a place is not in the collection for that place.
C6_StampedWithinThreshold ==
    published # None =>
        /\ \A i \in DOMAIN chargers :
              \E p \in ApiPlaces :
                  /\ p.id = chargers[i].placeId
                  /\ p.location # None
                  /\ chargers[i].distanceFromPlace =
                        calculateDistance(p.location[1], chargers[i].location)
                  /\ WithinMinutes(chargers[i].distanceFromPlace,
                                   published[1].walkingTime)
        /\ \A k \in DOMAIN ChargerCatalogue, p \in ApiPlaces :
              LET location == [lat |-> Chain(ChargerCatalogue[k].AddressInfo, "Latitude"),
                               lng |-> Chain(ChargerCatalogue[k].AddressInfo, "Longitude")]
              IN  (p.location # None
                   /\ ~WithinMinutes(calculateDistance(p.location[1], location),
                                     published[1].walkingTime))
                  => <<ChargerCatalogue[k].ID, p.id>> \notin Attachments(chargers)

\* a load with no cost or speed pre-filter and a 5 minute walking time
\* completed: charger 3, fetched for place A from 500 m away, was discarded,
\* charger 1, 100 m from A, was kept
C6_Witness ==
    /\ published # None
    /\ published[1].walkingTime = 5
    /\ published[1].cost = "all"
    /\ published[1].speed = "all"
    /\ \E i \in DOMAIN UpstreamChargers(Coord(1000), walkingTimeToDistanceKm(5)) :
          UpstreamChargers(Coord(1000), walkingTimeToDistanceKm(5))[i].ID = 3
    /\ <<1, "A">> \in Attachments(chargers)
    /\ <<3, "A">> \notin Attachments(chargers)


\* the filter pass over the current chargers, places, criteria and distances
FirstPass == filterPass(chargers, places, filters, distances)

\* the pass run once more, over the places the first pass produced
SecondPass == filterPass(chargers, FirstPass.sortedPlaces, filters, distances)

\* C13: filtering is idempotent: a second run of the filter pass with the same
\* chargers, distances and criteria, over the places of the first run, gives
\* the same filteredChargers in the same order and the same annotated places
\* (order, counts and featured chargers); so does a second run over the very
\* same places.
C13_FilterIdempotent ==
    /\ SecondPass.filtered = FirstPass.filtered
    /\ SecondPass.sortedPlaces = FirstPass.sortedPlaces
    /\ SecondPass.newSignature = FirstPass.newSignature

\* the effect has run under an active cost criterion that removes chargers,
\* over two places at least, and a further pass reproduces what is published
C13_Witness ==
    /\ pending = {}
    /\ Settled
    /\ filters.cost = "free"
    /\ Len(places) >= 2
    /\ filteredChargers # <<>>
    /\ filteredChargers # chargers
    /\ FirstPass.filtered = filteredChargers
    /\ FirstPass.sortedPlaces = places
    /\ \E i \in DOMAIN places : places[i].chargerCount # None /\ places[i].chargerCount[1] > 0




\* the record of a place-search response has a numeric latitude and longitude
HasCoordinates(record) ==
    /\ record.location # None
    /\ record.location[1].lat # None
    /\ record.location[1].lng # None

\* the ids of the records of a response that have coordinates, in its order
LocatedIds(response) ==
    LET located == SelectSeq(response, HasCoordinates)
    IN  [i \in DOMAIN located |-> located[i].id]

\* C16: a place record without a numeric latitude or longitude is left out of
\* the search results, before correlation and ranking, and does not make the
\* search fail: every place searchPlaces returned to a load has a numeric lat
\* and lng, and the other records of the response are all returned, in order.
C16_UnlocatedPlacesDropped ==
    \A k \in DOMAIN loads :
        loads[k].pc # "search" =>
            LET placeResults == loads[k].placeResults
            IN  /\ \A i \in DOMAIN placeResults :
                       /\ placeResults[i].geometry.location.lat # None
                       /\ placeResults[i].geometry.location.lng # None
                /\ [i \in DOMAIN placeResults |-> placeResults[i].place_id]
                       = LocatedIds(SearchResponse(loads[k].centerLocation))

\* a search whose response held a record without location and a record
\* without longitude returned the three other places
C16_Witness ==
    \E k \in DOMAIN loads :
        /\ loads[k].pc = "matrix"
        /\ \E i \in DOMAIN SearchResponse(loads[k].centerLocation) :
               SearchResponse(loads[k].centerLocation)[i].location = None
        /\ \E i \in DOMAIN SearchResponse(loads[k].centerLocation) :
               /\ SearchResponse(loads[k].centerLocation)[i].location # None
               /\ SearchResponse(loads[k].centerLocation)[i].location[1].lng = None
        /\ Len(loads[k].placeResults) = 3

\* the criteria a load may have closed over
LoadCriteria ==
    [walkingTime : WalkingTimes, searchRadius : SearchRadii, cost : CostValues,
     speed : SpeedValues]

\* The complete result of one search around center under the criteria f: the
\* distances map, the ids of the listed places and the chargers.
ResultOfSearch(center, f) ==
    LET placeResults == searchPlaces(SearchResponse(center))
        distanceMap ==
            distanceMapOf(placeResults,
                          getMultipleDistances(center, placeResults, MatrixFailures(center)))
        sortedPlaces ==
            sortByDistance(placesWithinRadiusOf(placeResults, distanceMap, f), distanceMap)
    IN  [distances |-> distanceMap,
         placeIds |-> [i \in DOMAIN sortedPlaces |-> sortedPlaces[i].place_id],
         chargers |-> allChargersOf(placeResults, f)]

\* C15: no partial result of a search is observable.  Whenever chargers are
\* held, the places, the distances and the chargers are those of one and the
\* same search: the places and distances of a new search are never shown with
\* the chargers of the previous one.
C15_NoPartialResult ==
    chargers # <<>> =>
        \E center \in StartLocations \cup MapCenters, f \in LoadCriteria :
            LET r == ResultOfSearch(center, f)
            IN  /\ distances = r.distances
                /\ [i \in DOMAIN places |-> places[i].place_id] = r.placeIds
                /\ chargers = r.chargers


\* C19: the signature comparison is only an optimization.  An implementation
\* that always publishes the recomputed list has, after each pass, the list
\* that pass computed; up to the first pass at which the two part, both are in
\* the same state, so they publish the same places list after every pass
\* exactly when each pass of the effect leaves places equal to the list it
\* recomputed.
C19_SkipIsOnlyOptimization ==
    [][(ApplyFiltersEffect /\ Len(places) > 0 /\ Len(chargers) > 0)
          => places' = FirstPass.sortedPlaces]_vars


\* the state holds the result of the load that was started last: the search
\* around the current search center under the criteria loads close over
LastStartedWins ==
    (Quiet /\ published # None /\ error = None) =>
        LET r == ResultOfSearch(searchCenter[1], loadFilters)
        IN  /\ distances = r.distances
            /\ chargers = r.chargers
            /\ \A i \in DOMAIN places : \E j \in DOMAIN r.placeIds : places[i].place_id = r.placeIds[j]

\* C24: when loads overlap, once all of them have finished the places, the
\* distances and the chargers in state are those of the load that was started
\* last, in whatever order the loads complete, and isLoading is true as long
\* as any load is still in flight.
C24_OverlappingLoads ==
    /\ LastStartedWins
    /\ loads # <<>> => isLoading


\* C28: after a load completed and every load has returned, every charger held
\* in chargers is attached to a place of the places list: none carries the id
\* of a place that was left out of the list for lying outside the search
\* radius.
C28_NoOrphanChargers ==
    (published # None /\ loads = <<>>) =>
        \A i \in DOMAIN chargers :
            \E j \in DOMAIN places : places[j].place_id = chargers[i].placeId


RECURSIVE SumSeq(_)
SumSeq(ns) == IF ns = <<>> THEN 0 ELSE Head(ns) + SumSeq(Tail(ns))

\* the ids of the chargers the fetch for the place returns, under the cost and
\* speed the load used, that lie within the walking threshold of the place
NearIds(place, used) ==
    LET fetched == getNearbyChargers(place.geometry.location,
                                     walkingTimeToDistanceKm(used.walkingTime),
                                     apiFiltersOf(used))
    IN  {fetched[k].ID : k \in {n \in DOMAIN fetched :
            WithinMinutes(calculateDistance(place.geometry.location,
                              [lat |-> Chain(fetched[n].AddressInfo, "Latitude"),
                               lng |-> Chain(fetched[n].AddressInfo, "Longitude")]),
                          used.walkingTime)}}

\* the entries of chargers that are copies of charger id attached to placeId
Copies(id, placeId) ==
    {i \in DOMAIN chargers : chargers[i].id = id /\ chargers[i].placeId = placeId}

\* C21: chargers are not deduplicated across places.  After a load completed,
\* chargers holds, for every place the search returned, one copy of every
\* charger within the walking threshold of that place, carrying that place's
\* id and its distance to that place, and no other entry: its size is the sum
\* over the places of the number of chargers within threshold of the place.
C21_OneCopyPerPlace ==
    published # None =>
        \E center \in StartLocations \cup MapCenters :
            LET searched == searchPlaces(SearchResponse(center))
            IN  /\ \A p \in DOMAIN searched, k \in DOMAIN ChargerCatalogue :
                       Cardinality(Copies(ChargerCatalogue[k].ID, searched[p].place_id))
                           = (IF ChargerCatalogue[k].ID \in NearIds(searched[p], published[1])
                              THEN 1 ELSE 0)
                /\ \A i \in DOMAIN chargers :
                       \E p \in DOMAIN searched :
                           /\ chargers[i].placeId = searched[p].place_id
                           /\ chargers[i].distanceFromPlace =
                                  calculateDistance(searched[p].geometry.location,
                                                    chargers[i].location)
                /\ Len(chargers) =
                       SumSeq([p \in DOMAIN searched |->
                                  Cardinality(NearIds(searched[p], published[1]))])

\* a load with a 10 minute walking time completed: charger 3, 500 m from A and
\* 500 m from B, is held twice, once for each place
C21_Witness ==
    /\ published # None
    /\ published[1].walkingTime = 10
    /\ \E i, j \in DOMAIN chargers :
           /\ chargers[i].id = 3 /\ chargers[j].id = 3
           /\ chargers[i].placeId = "A" /\ chargers[j].placeId = "B"
           /\ chargers[i].distanceFromPlace = Some(500)
           /\ chargers[j].distanceFromPlace = Some(500)


\* C25: once a search center is set, a change of search radius or walking time
\* reloads around it and leaves it alone: the initial location lookup is not
\* started again, and the search center changes only when the user presses
\* Search Again.
C25_ReloadKeepsSearchCenter ==
    [][searchCenter # None =>
          /\ (initPc' = "locating" => initPc = "locating")
          /\ (searchCenter' # searchCenter => \E center \in MapCenters : handleSearchAgain(center))]_vars


\* C29: the apply-filters effect reaches a fixed point.  When a run of the
\* effect publishes a places list, the run that publication triggers computes
\* the signature just recorded and publishes nothing, so a change is followed
\* by at most one publication and no chain of re-runs occurs.
C29_EffectFixedPoint ==
    [][(ApplyFiltersEffect /\ previousPlacesSignature' # previousPlacesSignature)
          => /\ pending' = {"filters"}
             /\ places' = FirstPass.sortedPlaces
             /\ filterPass(chargers, places', filters, distances).newSignature
                    = previousPlacesSignature']_vars

\* the effect has just published an annotated list and its re-run is pending:
\* the list carries featured chargers and the recorded signature is its own
C29_Witness ==
    /\ pending = {"filters"}
    /\ Len(chargers) > 0
    /\ Len(places) >= 2
    /\ \E i \in DOMAIN places : places[i].featuredCharger # None
    /\ previousPlacesSignature = signatureOf(places)
    /\ FirstPass.sortedPlaces = places

-----------------------------------------------------------------------------
(* Properties of the charger-fetch stage (SpecFetch).                      *)

\* the places the load searched, from the search center it was given
FetchedPlaces == searchPlaces(SearchResponse(searchCenter[1]))

\* the chargers the fetch for the place at index i returns, correlated with
\* that place: parsed, within walking distance, stamped with the place
CorrelatedFor(i) ==
    LET walkingDistanceKm == walkingTimeToDistanceKm(walkingTimeMinutesOf(loadFilters))
    IN  parsedChargersOf(FetchedPlaces, i,
                         getNearbyChargers(FetchedPlaces[i].geometry.location,
                                           walkingDistanceKm, apiFiltersOf(loadFilters)),
                         walkingDistanceKm)

\* the result set when the fetches of the places at the indices in failed
\* count as zero chargers and every other place keeps its chargers
ChargersWhenFailed(failed) ==
    Flatten([i \in DOMAIN FetchedPlaces |-> IF i \in failed THEN <<>> ELSE CorrelatedFor(i)])

\* C14: when the charger fetch of a place fails, the place counts as having
\* zero chargers and the load completes: once the load has returned, no error
\* is set and chargers holds what was fetched for the places whose fetch did
\* not fail.
C14_FailedFetchCountsEmpty ==
    loads = <<>> =>
        /\ error = None
        /\ \E failed \in SUBSET DOMAIN FetchedPlaces : chargers = ChargersWhenFailed(failed)


\* C20: correlation starts only after the charger fetches of all places have
\* completed (while the load awaits a fetch nothing of it is published), and
\* its result does not depend on the order in which the fetches finished: the
\* chargers returned for the i-th place are attached to the i-th place.
C20_CorrelationByIndex ==
    /\ loads # <<>> => (published = None /\ chargers = <<>>)
    /\ published # None =>
           /\ Len(published[1].order) = Len(FetchedPlaces)
           /\ \A i \in DOMAIN FetchedPlaces :
                  \E n \in DOMAIN published[1].order : published[1].order[n] = i
           /\ chargers = ChargersWhenFailed({})
           /\ \A i \in DOMAIN FetchedPlaces :
                  LET attached(c) == c.placeId = FetchedPlaces[i].place_id
                  IN  SelectSeq(chargers, attached) = CorrelatedFor(i)

\* the fetch of a later place finished before that of an earlier place, and
\* chargers of two places were correlated
C20_Witness ==
    /\ published # None
    /\ published[1].order[1] > published[1].order[2]
    /\ \E i, j \in DOMAIN chargers : chargers[i].placeId # chargers[j].placeId

-----------------------------------------------------------------------------
(* Properties of FilterPanel (SpecPanel).                                  *)

\* hasPendingChanges(): the serialized local and applied criteria differ; the
\* two objects always list the same keys in the same order
PendingChanges == panel.localFilters # panel.appliedFilters

\* C27: edits made in the filter panel stay local until committed.  Changing a
\* control, toggling a connector included, changes the local criteria only
\* and leaves the criteria MapView holds as they are; Apply publishes exactly
\* the local criteria and keeps them; Clear All Filters publishes the default
\* criteria and resets the local and the applied criteria to them; after
\* Apply or Clear, and after the effect they trigger, no change is pending.
C27_EditsLocalUntilCommitted ==
    [][/\ FilterPanel_handleFilterChange =>
              /\ filters' = filters
              /\ panel'.appliedFilters = panel.appliedFilters
              /\ panel'.localFilters # panel.localFilters
       /\ applyFilters =>
              /\ filters' = panel.localFilters
              /\ panel'.localFilters = panel.localFilters
              /\ ~PendingChanges'
       /\ FilterPanel_clearFilters =>
              /\ filters' = defaultFilters
              /\ panel'.localFilters = defaultFilters
              /\ panel'.appliedFilters = defaultFilters
       /\ FilterPanel_syncEffect =>
              /\ filters' = filters
              /\ ~PendingChanges'
       /\ filters' # filters => (applyFilters \/ FilterPanel_clearFilters)]_vars

\* Apply has just published criteria that differ from the default in the cost
\* and in the connectors, two connectors having been toggled on; nothing is
\* pending
C27_Witness ==
    /\ panel.sync
    /\ filters = panel.localFilters
    /\ filters.cost = "free"
    /\ filters.connectors = <<T_Type2, T_CCS>>
    /\ ~PendingChanges

-----------------------------------------------------------------------------
(* Properties of the location lookup (SpecLanding).                        *)

\* C26: when the landing page submitted the location type 'custom', MapView
\* never requests browser geolocation for that search, whatever the text of
\* the custom location, the empty string included: it asks for the geocoding
\* of the custom address, and the start location is the geocoded address, or
\* the default center when geocoding failed.
C26_CustomNeverGeolocates ==
    (landing.searchData # None /\ landing.searchData[1].locationType = "custom") =>
        /\ "geolocation" \notin landing.requested
        /\ landing.pc \in {"locating", "located"} => landing.requested = {"geocode"}
        /\ landing.startLocation # None => landing.startLocation[1] \in {"geocoded", "default"}

-----------------------------------------------------------------------------
(* Properties of the loads with their watchdog timers (SpecWatch).         *)

\* C22: every started load eventually leaves the loading state.  Whenever a
\* call of loadDataFromLocation is in flight and isLoading is true, isLoading
\* becomes false later on, even if no awaited request of the call ever
\* settles, provided the timers that stay set fire.
C22_LoadingEnds == (loads # <<>> /\ isLoading) ~> ~isLoading

\* the watchdog of a call that still awaits its place search has fired and
\* ended the loading state; the call is still in flight
C22_Witness ==
    /\ Len(loads) = 1
    /\ loads[1].pc = "search"
    /\ ~loads[1].watchdog
    /\ ~isLoading
    /\ error = Some("Taking too long to load results")

\* C23: when the most recent load completes successfully and publishes its
\* places and chargers, error is null afterwards; in particular a load that
\* completes after its watchdog fired does not leave the timeout error over
\* its results.  The most recent load is the last of the calls in flight when
\* the initial load and the reload that follows it are both in flight.
C23_NoErrorOverResults ==
    [][\A k \in 1..MaxLoads :
          (ChargersResolved(k) /\ Len(loads) = MaxLoads /\ k = Len(loads)) => error' = None]_vars

=============================================================================
